---- MODULE Spec2Model ----
(***************************************************************************)
(* price-diff-alerts: the aligned-bucket scheduler (internal/scheduler),   *)
(* the sampling orchestrator (internal/service), the advisory-lock gate    *)
(* and the sample/alert repository (internal/storage), as one state        *)
(* machine.  Several service instances run against one shared PostgreSQL   *)
(* store; every network or database call of ProcessBucket is one step.     *)
(***************************************************************************)
EXTENDS Integers, FiniteSets, Sequences, TLC

(***************************************************************************)
(* Bounds of the model.                                                    *)
(***************************************************************************)
\* the wall clock runs from 0 to MaxTime
MaxTime == 4
\* fractional digits kept by a decimal division (shopspring's
\* DivisionPrecision is 16; the model keeps fewer so that scaled values stay
\* machine integers)
DivDigits == 3
\* fractional digits kept by a percentage column (NUMERIC(12, 8) in the
\* schema; fewer here, in proportion to DivDigits)
PctColumnDigits == 0
\* how often the wall clock may be set to another instant
MaxJumps == 1
\* nextTick is applied to the instants 0..MaxProbeTime under the intervals
\* 1..MaxProbeInterval
MaxProbeTime == 12
MaxProbeInterval == 5
\* longest startup delay of a scheduler
MaxStartupDelay == 1

(***************************************************************************)
(* Configuration values (config.Config) the deployments draw from.         *)
(***************************************************************************)
\* scheduler.interval, in clock units
Interval == 2
\* scheduler.advisory_lock_key of a fleet that shares the gate
FleetLockKey == 1
\* alerting.threshold_pct, in whole percent
ThresholdPct == 2
\* a second alerting.threshold_pct
LowThresholdPct == 1

\* the service instances that may be deployed against the one store
Instances == {1, 2}
LockKeys == {FleetLockKey}

\* rates the two sources may answer (whole numbers, which the rate columns
\* store as they are; 0 is the degenerate official rate the orchestrator
\* guards against).  The market rates are 2% under and 2.5% over the
\* official rate.
OfficialRates == {0, 1000}
MarketRates == {980, 1025}

(***************************************************************************)
(* Decimal arithmetic (shopspring/decimal).  A rate is a whole number; a   *)
(* percentage is an integer count of 10^-DivDigits.                        *)
(***************************************************************************)
RECURSIVE Pow10(_)
Pow10(n) == IF n = 0 THEN 1 ELSE 10 * Pow10(n - 1)

Scale == Pow10(DivDigits)

Abs(x) == IF x < 0 THEN -x ELSE x

Sign(x) == IF x > 0 THEN 1 ELSE IF x < 0 THEN -1 ELSE 0

\* Decimal.Div: the quotient rounded half away from zero to DivDigits
\* digits, as a count of 10^-DivDigits (the operands are positive)
DecDiv(a, b) == (2 * a * Scale + b) \div (2 * b)

\* variant: the deviation loses its sign
Deviation_Unsigned(marketRate, officialRate) ==
    Abs((DecDiv(marketRate, officialRate) - Scale) * 100)

\* marketRate.Div(officialRate).Sub(1).Mul(100)
Deviation(marketRate, officialRate) ==
    (DecDiv(marketRate, officialRate) - Scale) * 100

\* decimal.NewFromFloat of a whole-percent threshold
NewFromFloat(pct) == pct * Scale

\* a value assigned to a NUMERIC(p, digits) column: rounded to the column's
\* scale, ties away from zero (the value stays a count of 10^-DivDigits)
NumericColumn(v, digits) ==
    LET unit == Pow10(DivDigits - digits)
    IN  Sign(v) * ((2 * Abs(v) + unit) \div (2 * unit)) * unit

classifyDeviation(d) ==
    IF Sign(d) = 1 THEN "up" ELSE IF Sign(d) = -1 THEN "down" ELSE "flat"

(***************************************************************************)
(* Bucket clock (Scheduler.nextTick, Scheduler.bucketStart).               *)
(***************************************************************************)
\* time.Time.Truncate for instants at or after the epoch
Truncate(t, d) == t - (t % d)

\* variant: an instant on a boundary is its own next boundary
nextTick_KeepsBoundary(opts, t) ==
    IF ~opts.align
    THEN t + opts.interval
    ELSE LET b == Truncate(t, opts.interval)
         IN  IF b < t THEN b + opts.interval ELSE b

\* variant: the boundary is one interval from now in aligned mode too
nextTick_IgnoresAlign(opts, t) == t + opts.interval

nextTick(opts, t) ==
    IF ~opts.align
    THEN t + opts.interval
    ELSE LET b == Truncate(t, opts.interval)
         IN  IF ~(b > t) THEN b + opts.interval ELSE b

\* variant: the instant is aligned backward
alignForward_Truncates(t, interval) == Truncate(t, interval)

\* alignForward (backfill.go)
alignForward(t, interval) ==
    LET truncated == Truncate(t, interval)
    IN  IF truncated < t THEN truncated + interval ELSE truncated

bucketStart(opts, t) == IF ~opts.align THEN t ELSE Truncate(t, opts.interval)

(***************************************************************************)
(* Deployments: the configuration of every instance (config.Config).       *)
(***************************************************************************)
\* the size of an instance's connection pool (database.max_open_conns)
MaxConns == 2

\* an instance that is not deployed
Off == [deployed |-> FALSE, lockKey |-> 0, dsn |-> FALSE, alertsOn |-> FALSE,
        thresholdPct |-> 0, telegram |-> FALSE, align |-> TRUE,
        interval |-> Interval, channels |-> <<>>, startupDelay |-> 0,
        maxConns |-> MaxConns]

\* every configuration Config.Validate accepts, over the values above
Configs ==
    [deployed : {TRUE}, lockKey : {0, FleetLockKey}, dsn : BOOLEAN,
     alertsOn : BOOLEAN, thresholdPct : {0, ThresholdPct},
     telegram : BOOLEAN, align : {TRUE}, interval : {Interval},
     channels : {<<"telegram">>}, startupDelay : {0}, maxConns : {MaxConns}]

\* the first instance of a fleet: gated, persisting and alerting
Standard ==
    [deployed |-> TRUE, lockKey |-> FleetLockKey, dsn |-> TRUE,
     alertsOn |-> TRUE, thresholdPct |-> ThresholdPct, telegram |-> TRUE,
     align |-> TRUE, interval |-> Interval, channels |-> <<"telegram">>,
     startupDelay |-> 0, maxConns |-> MaxConns]

\* the configurations of a further instance of the fleet: it shares the
\* store and the lock key, and alerts through its notifier with its own
\* threshold and channels
PeerConfigs ==
    [deployed : {TRUE}, lockKey : LockKeys, dsn : {TRUE},
     alertsOn : {TRUE}, thresholdPct : {LowThresholdPct},
     telegram : {TRUE}, align : {TRUE}, interval : {Interval},
     channels : {<<"telegram", "ops">>}, startupDelay : {0},
     maxConns : {MaxConns}]

\* one instance alone under any configuration, or a fleet
Deployments ==
    {d \in [Instances -> Configs \cup PeerConfigs \cup {Off}] :
        /\ d[1] \in Configs
        /\ \A i \in Instances \ {1} : d[i] \in PeerConfigs \cup {Off}
        /\ (\E i \in Instances \ {1} : d[i].deployed) => d[1] = Standard}

(***************************************************************************)
(* service.New: the Service built from a configuration and the wired       *)
(* store, alert store and notifier (App.Run passes the store as both       *)
(* stores when database.dsn is set, and none otherwise).                   *)
(***************************************************************************)
New(c) ==
    [threshold  |-> IF c.alertsOn /\ c.thresholdPct > 0
                    THEN NewFromFloat(c.thresholdPct) ELSE 0,
     channels   |-> c.channels,
     alertsOn   |-> c.alertsOn,
     store      |-> c.dsn,
     alertStore |-> c.dsn,
     notifier   |-> c.telegram,
     locker     |-> c.dsn,
     lockKey    |-> c.lockKey]

\* service.New as App.Backfill calls it: the store unless --dry-run, no
\* alert store and no notifier
BackfillService(c, dryRun) ==
    [New(c) EXCEPT !.store = ~dryRun, !.alertStore = FALSE,
                   !.notifier = FALSE, !.locker = ~dryRun]

\* service.New as App.SimulateAlert calls it: no store, no alert store,
\* the configured notifier
SimulateService(c) ==
    [New(c) EXCEPT !.store = FALSE, !.alertStore = FALSE, !.locker = FALSE]

(***************************************************************************)
(* Repository statements (storage.Store).  The tables are sets of rows.    *)
(* Of the sample's columns the rows carry the key, the two rates, the      *)
(* deviation, status and error; notional, quality, quote and block number  *)
(* are written like the rates, and created_at (DEFAULT now(), set by no    *)
(* statement) is left out.                                                 *)
(***************************************************************************)
\* the row of rate_samples the values of sample s make
SampleRow(s) ==
    [bucket_ts |-> s.bucket_ts, official |-> s.official, market |-> s.market,
     deviation_pct |-> NumericColumn(s.deviation_pct, PctColumnDigits),
     status |-> s.status, error |-> s.error]

\* the row of alerts the values of alert a make under the id drawn for it
AlertRow(a, id) ==
    [id |-> id, sample_ts |-> a.sample_ts,
     deviation_pct |-> NumericColumn(a.deviation_pct, PctColumnDigits),
     threshold_pct |-> NumericColumn(a.threshold_pct, PctColumnDigits),
     direction |-> a.direction, channels |-> a.channels]

\* variant: the statement answers without its row reaching the table
UpsertRateSampleSQL_NotDurable(rows, s) == rows

\* variant: ON CONFLICT (bucket_ts) DO NOTHING
UpsertRateSampleSQL_DoNothing(rows, s) ==
    IF \E r \in rows : r.bucket_ts = s.bucket_ts
    THEN rows
    ELSE rows \cup {SampleRow(s)}

\* variant: the update leaves the market rate of the row as it was
UpsertRateSampleSQL_KeepsMarket(rows, s) ==
    IF \E r \in rows : r.bucket_ts = s.bucket_ts
    THEN {IF r.bucket_ts = s.bucket_ts
          THEN [r EXCEPT !.official = SampleRow(s).official,
                         !.deviation_pct = SampleRow(s).deviation_pct,
                         !.status = SampleRow(s).status,
                         !.error = SampleRow(s).error]
          ELSE r : r \in rows}
    ELSE rows \cup {SampleRow(s)}

\* variant: the update leaves status and error of the row as they were
UpsertRateSampleSQL_KeepsStatus(rows, s) ==
    IF \E r \in rows : r.bucket_ts = s.bucket_ts
    THEN {IF r.bucket_ts = s.bucket_ts
          THEN [r EXCEPT !.official = SampleRow(s).official,
                         !.market = SampleRow(s).market,
                         !.deviation_pct = SampleRow(s).deviation_pct]
          ELSE r : r \in rows}
    ELSE rows \cup {SampleRow(s)}

\* upsertRateSampleSQL: INSERT ... ON CONFLICT (bucket_ts) DO UPDATE SET
\* every inserted column
UpsertRateSampleSQL(rows, s) ==
    IF \E r \in rows : r.bucket_ts = s.bucket_ts
    THEN {IF r.bucket_ts = s.bucket_ts
          THEN [r EXCEPT !.official = SampleRow(s).official,
                         !.market = SampleRow(s).market,
                         !.deviation_pct = SampleRow(s).deviation_pct,
                         !.status = SampleRow(s).status,
                         !.error = SampleRow(s).error]
          ELSE r : r \in rows}
    ELSE rows \cup {SampleRow(s)}

\* markSampleErroredSQL: UPDATE rate_samples SET status = 'errored',
\* error = $2 WHERE bucket_ts = $1
MarkSampleErroredSQL(rows, b, msg) ==
    {IF r.bucket_ts = b
     THEN [r EXCEPT !.status = "errored", !.error = msg]
     ELSE r : r \in rows}

\* variant: the table keeps the latest alert only
InsertAlertSQL_KeepsLatestOnly(rows, a, id) == {AlertRow(a, id)}

\* variant: the conflicting row is replaced by a new row with a new id
InsertAlertSQL_ReplacesRow(rows, a, id) ==
    {r \in rows : r.sample_ts # a.sample_ts} \cup {AlertRow(a, id)}

\* insertAlertSQL: INSERT ... ON CONFLICT (sample_ts) DO UPDATE SET
\* deviation_pct, threshold_pct, direction, channels; id is the BIGSERIAL
\* value drawn for the statement, kept only by a newly inserted row
InsertAlertSQL(rows, a, id) ==
    IF \E r \in rows : r.sample_ts = a.sample_ts
    THEN {IF r.sample_ts = a.sample_ts
          THEN [r EXCEPT !.deviation_pct = AlertRow(a, id).deviation_pct,
                         !.threshold_pct = AlertRow(a, id).threshold_pct,
                         !.direction = AlertRow(a, id).direction,
                         !.channels = AlertRow(a, id).channels]
          ELSE r : r \in rows}
    ELSE rows \cup {AlertRow(a, id)}

\* variant: alerts.sample_ts without the reference
ForeignKeyOk_NoReference(sampleRows, a) == TRUE

\* alerts.sample_ts REFERENCES rate_samples(bucket_ts)
ForeignKeyOk(sampleRows, a) == \E r \in sampleRows : r.bucket_ts = a.sample_ts

\* pg_try_advisory_lock(key) asked by session sess: granted when no other
\* session holds the key
PgTryAdvisoryLock(holder, sess) == holder = 0 \/ holder = sess

(***************************************************************************)
(* Gate (Store.TryAdvisoryLock, Service.acquireLock).                      *)
(***************************************************************************)
\* variant: the try-lock grants the key whoever holds it
TryAdvisoryLock_IgnoresHolder(holder, sess, dbOk) ==
    IF ~dbOk THEN [acquired |-> FALSE, err |-> TRUE]
    ELSE [acquired |-> TRUE, err |-> FALSE]

\* Store.TryAdvisoryLock: dbOk is whether the pool handed out a connection
\* and the query was answered; unlock is non-nil exactly when acquired
TryAdvisoryLock(holder, sess, dbOk) ==
    IF ~dbOk THEN [acquired |-> FALSE, err |-> TRUE]
    ELSE IF ~PgTryAdvisoryLock(holder, sess)
         THEN [acquired |-> FALSE, err |-> FALSE]
         ELSE [acquired |-> TRUE, err |-> FALSE]

\* variant: the lock key is not looked at
acquireLock_AnyKey(s, holder, sess, dbOk) ==
    IF ~s.locker
    THEN [unlock |-> FALSE, proceed |-> TRUE, err |-> FALSE, asked |-> FALSE]
    ELSE LET r == TryAdvisoryLock(holder, sess, dbOk)
         IN  IF r.err
             THEN [unlock |-> FALSE, proceed |-> FALSE, err |-> TRUE,
                   asked |-> TRUE]
             ELSE IF ~r.acquired
                  THEN [unlock |-> FALSE, proceed |-> FALSE, err |-> FALSE,
                        asked |-> TRUE]
                  ELSE [unlock |-> TRUE, proceed |-> TRUE, err |-> FALSE,
                        asked |-> TRUE]

\* Service.acquireLock: (unlock, proceed, err)
acquireLock(s, holder, sess, dbOk) ==
    IF s.lockKey = 0 \/ ~s.locker
    THEN [unlock |-> FALSE, proceed |-> TRUE, err |-> FALSE, asked |-> FALSE]
    ELSE LET r == TryAdvisoryLock(holder, sess, dbOk)
         IN  IF r.err
             THEN [unlock |-> FALSE, proceed |-> FALSE, err |-> TRUE,
                   asked |-> TRUE]
             ELSE IF ~r.acquired
                  THEN [unlock |-> FALSE, proceed |-> FALSE, err |-> FALSE,
                        asked |-> TRUE]
                  ELSE [unlock |-> TRUE, proceed |-> TRUE, err |-> FALSE,
                        asked |-> TRUE]

\* how the gate answered, for the invocation record
GateOutcome(r) ==
    IF ~r.asked THEN "bypass"
    ELSE IF r.err THEN "error"
    ELSE IF r.proceed THEN "acquired" ELSE "busy"

\* variant: the error of the gate is dropped and the bucket executed
ProcessBucketAfterGate_IgnoresError(r) ==
    IF ~r.err /\ ~r.proceed THEN "return_nil" ELSE "execute"

\* variant: contention does not end ProcessBucket
ProcessBucketAfterGate_NoSkip(r) ==
    IF r.err THEN "return_err" ELSE "execute"

\* ProcessBucket after acquireLock: return the error, return nil on
\* contention, or go on to executeBucket
ProcessBucketAfterGate(r) ==
    IF r.err THEN "return_err"
    ELSE IF ~r.proceed THEN "return_nil" ELSE "execute"

(***************************************************************************)
(* executeBucket's decisions.                                              *)
(***************************************************************************)
\* the answer of a rate source that failed
FetchError == -1

\* what the official source answered: an error, a zero rate or a rate
OfficialOutcome(r) ==
    IF r = FetchError THEN "fail" ELSE IF r = 0 THEN "zero" ELSE "ok"

\* what the market source answered: an error or a rate
MarketOutcome(r) == IF r = FetchError THEN "fail" ELSE "ok"

\* variant: the zero-rate guard is missing
AfterOfficial_NoZeroGuard(o) ==
    IF o = "fail" THEN "return_err" ELSE "continue"

\* after FetchOfficial: err != nil returns, officialRate.IsZero() returns
AfterOfficial(o) ==
    IF o = "fail" THEN "return_err"
    ELSE IF o = "zero" THEN "return_err" ELSE "continue"

\* variant: the market fetch's error is ignored
AfterMarket_IgnoresError(m) == "continue"

\* after FetchMarket: err != nil returns
AfterMarket(m) == IF m = "fail" THEN "return_err" ELSE "continue"

\* variant: a deviation at the threshold alerts too
ShouldAlert_AtThreshold(s, deviation) ==
    /\ s.alertsOn
    /\ s.notifier
    /\ s.threshold # 0
    /\ Abs(deviation) >= s.threshold

\* variant: every sample alerts, whatever its deviation and the threshold
ShouldAlert_AnyDeviation(s, deviation) ==
    /\ s.alertsOn
    /\ s.notifier

\* the alert condition of executeBucket
ShouldAlert(s, deviation) ==
    /\ s.alertsOn
    /\ s.notifier
    /\ s.threshold # 0
    /\ Abs(deviation) > s.threshold

\* variant: a failed upsert ends executeBucket
AfterUpsert_AbortsOnFailure(s, deviation, upsertOk) ==
    IF ~upsertOk THEN "exit"
    ELSE IF s.alertsOn /\ s.notifier /\ s.threshold # 0
            /\ Abs(deviation) > s.threshold
         THEN IF s.alertStore THEN "alert" ELSE "notify"
         ELSE "exit"

\* where executeBucket goes once the sample is built and, when a store is
\* wired, its upsert has answered (upsertOk is the upsert's outcome)
AfterUpsert(s, deviation, upsertOk) ==
    IF ShouldAlert(s, deviation)
    THEN IF s.alertStore THEN "alert" ELSE "notify"
    ELSE "exit"

\* where executeBucket goes once InsertAlert has answered
AfterInsertAlert(alertOk) == "notify"

\* variant: a failed upsert is returned as an error
executeBucketResult_ReturnsUpsertError(c) ==
    IF c.official = "fail" THEN "err_official"
    ELSE IF c.official = "zero" THEN "err_zero"
    ELSE IF c.market = "fail" THEN "err_market"
    ELSE IF c.upsert = "fail" THEN "err_upsert"
    ELSE "nil"

\* executeBucket's return value from the outcomes of its calls
executeBucketResult(c) ==
    IF c.official = "fail" THEN "err_official"
    ELSE IF c.official = "zero" THEN "err_zero"
    ELSE IF c.market = "fail" THEN "err_market"
    ELSE "nil"

(***************************************************************************)
(* State.                                                                  *)
(***************************************************************************)
VARIABLES
    cfg,        \* cfg[i]: the configuration instance i was started with
    now,        \* the wall clock
    schedPc,    \* schedPc[i]: where Scheduler.Run of instance i stands
    next,       \* next[i]: Run's local next, the boundary it waits for
    pc,         \* pc[i]: where ProcessBucket of instance i stands
    call,       \* call[i]: locals and call outcomes of the invocation
    lock,       \* lock[k]: the session holding advisory lock k (0: none)
    samples,    \* table rate_samples
    alerts,     \* table alerts
    alertSeq,   \* the BIGSERIAL sequence of alerts.id
    sent,       \* notifications the notifier delivered
    worked,     \* history: worked[b], the instances that executed bucket b
    lastSample, \* history: lastSample[b], the latest sample upserted for b
    lastAlert,  \* history: lastAlert[b], the latest alert upserted for b
    timer,      \* timer[i]: what is left of the delay Run's timer was armed with
    cancelled,  \* cancelled[i]: the context of instance i is done
    jumps,      \* how often the wall clock was set
    lastTick,   \* history: lastTick[i], the bucket Run last passed to tick
    tickFailed, \* history: tickFailed[i], Run logged "tick execution failed"
                \* for the tick it last called
    probe,      \* a function of the program applied on its own: its
                \* arguments and, once applied, its result
    bf          \* App.Backfill: its options, its locals and, as history,
                \* the buckets it passed to ProcessBucket

vars == <<cfg, now, schedPc, next, pc, call, lock, samples, alerts, alertSeq,
          sent, worked, lastSample, lastAlert, timer, cancelled, jumps,
          lastTick, tickFailed, probe, bf>>

storeVars == <<samples, alerts, alertSeq, sent, lastSample, lastAlert>>

\* what only the scheduler loop and the clock change
loopVars == <<timer, jumps, lastTick, tickFailed>>

(***************************************************************************)
(* Functions of the program applied on their own, to arguments drawn from  *)
(* bounded sets: Scheduler.nextTick and the deviation of executeBucket as  *)
(* computed and as its column stores it.                                   *)
(***************************************************************************)
programVars == <<cfg, now, schedPc, next, pc, call, lock, storeVars, worked,
                 cancelled, loopVars>>

\* no bucket passed to tick yet
NoTick == -1

\* the instants a bucket can be labelled with: a boundary is at most one
\* interval after the instant it was computed at
BucketSet == 0..(MaxTime + Interval)

None == [none |-> TRUE]

\* the record of an invocation that has not made any call yet
FreshCall(b) ==
    [bucket |-> b, gate |-> "none", unlock |-> FALSE, official |-> "none",
     market |-> "none", upsert |-> "none", alert |-> "none",
     notify |-> "none", ret |-> "running", answered |-> FALSE,
     reentered |-> FALSE, cancelledAt |-> "none", conn |-> 0, usedConn |-> 0,
     officialRate |-> 0, marketRate |-> 0, deviation |-> 0]

IdleCall == FreshCall(0)

\* no backfill job is run
NoBackfill == [pc |-> "none"]

\* the Service of instance i: the one App.Run builds or, for the process
\* that runs the backfill job, the one App.Backfill builds
Service(i) ==
    IF bf.pc # "none" /\ bf.inst = i
    THEN IF bf.kind = "simulate"
         THEN SimulateService(cfg[i])
         ELSE BackfillService(cfg[i], bf.dryRun)
    ELSE New(cfg[i])

\* the context of instance i was done before the call its invocation is
\* about to make began (a cancellation that lands during the call races
\* with the call's answer)
CtxDone(i) == cancelled[i] /\ call[i].cancelledAt # pc[i]

\* whether a call on the store or the notifier that takes the context of
\* instance i can succeed: with a context that is done it returns the
\* context's error before anything is sent
CtxAnswers(i) == IF CtxDone(i) THEN {FALSE} ELSE BOOLEAN

\* the connections of the pool of instance i that are not checked out: all
\* but the one its invocation reserved for the gate
IdleConns(i) == (1..cfg[i].maxConns) \ {call[i].conn}

\* variant: the pool hands out its first connection, checked out or not
PoolAcquire_HandsOutAny(i) == 1

\* pool.Acquire: an idle connection (the pool's connections are alike, so
\* the lowest-numbered idle one stands for any), or 0 when none is idle
PoolAcquire(i) ==
    IF IdleConns(i) = {} THEN 0
    ELSE CHOOSE n \in IdleConns(i) : \A m \in IdleConns(i) : n <= m

\* how a statement run through pool.Exec / pool.QueryRow with the context
\* of instance i can end: it fails at once with a context that is done,
\* with no idle connection it waits and fails only when the context is
\* cancelled, otherwise it runs on the connection acquired
StoreAnswers(i) ==
    IF CtxDone(i) THEN {FALSE}
    ELSE IF PoolAcquire(i) = 0
         THEN IF cancelled[i] THEN {FALSE} ELSE {}
         ELSE BOOLEAN

\* instance i runs SimulateAlert
Simulates(i) == bf.pc # "none" /\ bf.inst = i /\ bf.kind = "simulate"

\* what the official fetcher of instance i can answer: the rate given to
\* SimulateAlert (staticOfficialFetcher), or any rate or an error
OfficialAnswers(i) ==
    IF Simulates(i) THEN {bf.official}
    ELSE IF CtxDone(i) THEN {FetchError}
    ELSE OfficialRates \cup {FetchError}

\* what the market fetcher of instance i can answer
MarketAnswers(i) ==
    IF Simulates(i) THEN {bf.market}
    ELSE IF CtxDone(i) THEN {FetchError}
    ELSE MarketRates \cup {FetchError}

\* a lost session of instance i that the server has not ended yet
Lost(i) == -i

\* a session of instance i that went back to its pool holding the key
Pooled(i) == -i - Cardinality(Instances)

\* the sessions an invocation of instance i can be handed by pool.Acquire:
\* a connection that holds nothing or, when one is pooled, the one that
\* still holds the key
SessionsOf(i, holder) ==
    {i} \cup (IF holder = Pooled(i) THEN {Pooled(i)} ELSE {})

\* no function is applied on its own
NoProbe == [fn |-> "none"]

\* the processes before any of them has run, under deployment d
Started(d) ==
    /\ cfg = d
    /\ now = 0
    /\ schedPc = [i \in Instances |-> "init"]
    /\ next = [i \in Instances |-> 0]
    /\ pc = [i \in Instances |-> "idle"]
    /\ call = [i \in Instances |-> IdleCall]
    /\ lock = [k \in LockKeys |-> 0]
    /\ samples = {}
    /\ alerts = {}
    /\ alertSeq = 1
    /\ sent = {}
    /\ worked = [b \in BucketSet |-> {}]
    /\ lastSample = [b \in BucketSet |-> None]
    /\ lastAlert = [b \in BucketSet |-> None]
    /\ timer = [i \in Instances |-> 0]
    /\ cancelled = [i \in Instances |-> FALSE]
    /\ jumps = 0
    /\ lastTick = [i \in Instances |-> NoTick]
    /\ tickFailed = [i \in Instances |-> FALSE]

Init ==
    /\ \E d \in Deployments : Started(d)
    /\ probe = NoProbe
    /\ bf = NoBackfill

(***************************************************************************)
(* The wall clock and the store's session cleanup.                         *)
(***************************************************************************)
\* Run of instance i is parked in a select whose timer has not expired and
\* its context is done: the select takes <-ctx.Done() and stops the timer
SelectTookDone(i) ==
    cancelled[i] /\ schedPc[i] \in {"delay", "wait"} /\ timer[i] > 0

\* one unit of time passes: the wall clock and every running timer advance
Tick ==
    /\ now < MaxTime
    /\ now' = now + 1
    /\ timer' = [i \in Instances |->
                   IF timer[i] > 0 /\ ~SelectTookDone(i)
                   THEN timer[i] - 1 ELSE timer[i]]
    /\ UNCHANGED <<cfg, probe, bf, cancelled, schedPc, next, pc, call, lock, storeVars,
                   worked, jumps, lastTick, tickFailed>>

\* the wall clock is set to another instant (NTP step, operator); timers
\* run on the monotonic clock and keep their remaining delay
ClockJump ==
    /\ jumps < MaxJumps
    /\ \E t \in 0..MaxTime : t # now /\ now' = t
    /\ jumps' = jumps + 1
    /\ UNCHANGED <<cfg, probe, bf, cancelled, schedPc, next, pc, call, lock, storeVars,
                   worked, timer, lastTick, tickFailed>>

\* the server ends a lost session and with it frees its advisory lock
SessionEnd(k) ==
    /\ lock[k] < 0
    /\ lock' = [lock EXCEPT ![k] = 0]
    /\ UNCHANGED <<cfg, probe, bf, cancelled, now, schedPc, next, pc, call, storeVars,
                   worked, loopVars>>

(***************************************************************************)
(* Scheduler.Run.                                                          *)
(***************************************************************************)
\* variant: a boundary in the past is kept
ArmedBoundary_KeepsPast(opts, n, t) == n

\* variant: the boundary is always taken from the current time
ArmedBoundary_FromNow(opts, n, t) == nextTick(opts, t)

\* the boundary Run waits for once it has looked at the clock: a boundary
\* already in the past is recomputed from the current time
ArmedBoundary(opts, n, t) == IF n - t < 0 THEN nextTick(opts, t) ELSE n

\* delay := time.Until(next), for the boundary the loop settled on
ArmedDelay(n, t) == n - t

\* the calls of ProcessBucket that take the context and wait on the
\* store, a fetcher or the notifier
SuspensionPoints ==
    {"acquire", "official", "market", "upsert", "alert", "notify"}

\* the signal handler of App.Run cancels the context; an invocation in
\* flight is caught at the call it is waiting in, which the record keeps,
\* as it keeps that the timer of the loop's select had expired already
Cancel(i) ==
    /\ cfg[i].deployed
    /\ schedPc[i] # "returned"
    /\ ~cancelled[i]
    /\ cancelled' = [cancelled EXCEPT ![i] = TRUE]
    /\ call' = IF pc[i] \in SuspensionPoints
               THEN [call EXCEPT ![i].cancelledAt = pc[i]]
               ELSE IF schedPc[i] = "wait" /\ timer[i] = 0
               THEN [call EXCEPT ![i].cancelledAt = "expired"]
               ELSE call
    /\ UNCHANGED <<cfg, probe, bf, now, schedPc, next, pc, lock, storeVars, worked,
                   loopVars>>

\* a startup delay is configured: Run waits on a timer of that length
StartupDelay(i) ==
    /\ cfg[i].deployed
    /\ schedPc[i] = "init"
    /\ cfg[i].startupDelay > 0
    /\ schedPc' = [schedPc EXCEPT ![i] = "delay"]
    /\ timer' = [timer EXCEPT ![i] = cfg[i].startupDelay]
    /\ UNCHANGED <<cfg, probe, bf, cancelled, now, next, pc, call, lock, storeVars,
                   worked, jumps, lastTick, tickFailed>>

\* next := s.nextTick(time.Now()); the timer is armed for it
RunStart(i) ==
    /\ cfg[i].deployed
    /\ \/ schedPc[i] = "init" /\ cfg[i].startupDelay = 0
       \/ schedPc[i] = "delay" /\ timer[i] = 0
    /\ next' = [next EXCEPT
                  ![i] = ArmedBoundary(cfg[i], nextTick(cfg[i], now), now)]
    /\ timer' = [timer EXCEPT ![i] = ArmedDelay(next'[i], now)]
    /\ schedPc' = [schedPc EXCEPT ![i] = "wait"]
    /\ UNCHANGED <<cfg, probe, bf, cancelled, now, pc, call, lock, storeVars, worked,
                   jumps, lastTick, tickFailed>>

\* the select takes <-timer.C: bucket := s.bucketStart(next) and
\* tick(ctx, bucket) starts.  With the context done as well the select may
\* take either case.
TimerFire(i) ==
    /\ schedPc[i] = "wait"
    /\ timer[i] = 0
    /\ schedPc' = [schedPc EXCEPT ![i] = "tick"]
    /\ pc' = [pc EXCEPT ![i] = "acquire"]
    /\ call' = [call EXCEPT ![i] = FreshCall(bucketStart(cfg[i], next[i]))]
    /\ lastTick' = [lastTick EXCEPT ![i] = bucketStart(cfg[i], next[i])]
    /\ UNCHANGED <<cfg, probe, bf, cancelled, now, next, lock, storeVars, worked, timer,
                   jumps, tickFailed>>

\* variant: Run returns on cancellation without waiting for tick
RunReturn_DuringTick(i) ==
    /\ schedPc[i] \in {"delay", "wait", "tick"}
    /\ cancelled[i]
    /\ schedPc' = [schedPc EXCEPT ![i] = "returned"]
    /\ UNCHANGED <<cfg, probe, bf, cancelled, now, next, pc, call, lock, storeVars, worked,
                   loopVars>>

\* the select takes <-ctx.Done(), in the startup delay or in the loop: Run
\* returns ctx.Err()
RunReturn(i) ==
    /\ schedPc[i] \in {"delay", "wait"}
    /\ cancelled[i]
    /\ schedPc' = [schedPc EXCEPT ![i] = "returned"]
    /\ UNCHANGED <<cfg, probe, bf, cancelled, now, next, pc, call, lock, storeVars, worked,
                   loopVars>>

\* variant: the boundary is not advanced after a tick
RunLoop_KeepsBoundary(i) ==
    /\ schedPc[i] = "tick"
    /\ pc[i] = "returned"
    /\ next' = [next EXCEPT ![i] = ArmedBoundary(cfg[i], next[i], now)]
    /\ timer' = [timer EXCEPT ![i] = ArmedDelay(next'[i], now)]
    /\ schedPc' = [schedPc EXCEPT ![i] = "wait"]
    /\ pc' = [pc EXCEPT ![i] = "idle"]
    /\ call' = [call EXCEPT ![i] = IdleCall]
    /\ tickFailed' = [tickFailed EXCEPT ![i] = call[i].ret # "nil"]
    /\ UNCHANGED <<cfg, probe, bf, cancelled, now, lock, storeVars, worked, jumps,
                   lastTick>>

\* variant: tick runs in the background and the loop goes on at once
RunLoop_DoesNotWait(i) ==
    /\ schedPc[i] = "tick"
    /\ next' = [next EXCEPT
                  ![i] = ArmedBoundary(cfg[i], next[i] + cfg[i].interval, now)]
    /\ timer' = [timer EXCEPT ![i] = ArmedDelay(next'[i], now)]
    /\ schedPc' = [schedPc EXCEPT ![i] = "wait"]
    /\ UNCHANGED <<cfg, probe, bf, cancelled, now, pc, call, lock, storeVars,
                   worked, jumps, lastTick, tickFailed>>

\* variant: an error of tick ends Run
RunLoop_ReturnsError(i) ==
    /\ schedPc[i] = "tick"
    /\ pc[i] = "returned"
    /\ next' = [next EXCEPT
                  ![i] = ArmedBoundary(cfg[i], next[i] + cfg[i].interval, now)]
    /\ timer' = [timer EXCEPT ![i] = ArmedDelay(next'[i], now)]
    /\ schedPc' = [schedPc EXCEPT
                     ![i] = IF call[i].ret # "nil" THEN "returned" ELSE "wait"]
    /\ pc' = [pc EXCEPT ![i] = "idle"]
    /\ call' = [call EXCEPT ![i] = IdleCall]
    /\ tickFailed' = [tickFailed EXCEPT ![i] = call[i].ret # "nil"]
    /\ UNCHANGED <<cfg, probe, bf, cancelled, now, lock, storeVars, worked, jumps,
                   lastTick>>

\* tick returned (its error is only logged): next = next.Add(Interval) and
\* the loop arms the timer again
RunLoop(i) ==
    /\ schedPc[i] = "tick"
    /\ pc[i] = "returned"
    /\ next' = [next EXCEPT
                  ![i] = ArmedBoundary(cfg[i], next[i] + cfg[i].interval, now)]
    /\ timer' = [timer EXCEPT ![i] = ArmedDelay(next'[i], now)]
    /\ schedPc' = [schedPc EXCEPT ![i] = "wait"]
    /\ pc' = [pc EXCEPT ![i] = "idle"]
    /\ call' = [call EXCEPT ![i] = IdleCall]
    /\ tickFailed' = [tickFailed EXCEPT ![i] = call[i].ret # "nil"]
    /\ UNCHANGED <<cfg, probe, bf, cancelled, now, lock, storeVars, worked, jumps,
                   lastTick>>

(***************************************************************************)
(* Service.ProcessBucket and executeBucket, one step per outbound call.    *)
(***************************************************************************)
\* the RateSample executeBucket builds (status complete, no error)
SampleOf(c) ==
    [bucket_ts |-> c.bucket, official |-> c.officialRate,
     market |-> c.marketRate, deviation_pct |-> c.deviation,
     status |-> "complete", error |-> "null"]

\* the AlertRecord executeBucket builds
AlertOf(s, c) ==
    [sample_ts |-> c.bucket, deviation_pct |-> c.deviation,
     threshold_pct |-> s.threshold,
     direction |-> classifyDeviation(c.deviation), channels |-> s.channels]

\* the Notification executeBucket builds, with the instance that sent it
NotificationOf(i, s, c) ==
    [by |-> i, bucket |-> c.bucket, official |-> c.officialRate,
     market |-> c.marketRate, deviation_pct |-> c.deviation,
     threshold_pct |-> s.threshold,
     direction |-> classifyDeviation(c.deviation), channels |-> s.channels]

\* pg_advisory_unlock(key) run by session sess
PgAdvisoryUnlock(holder, sess) == IF holder = sess THEN 0 ELSE holder

\* variant: the unlock runs only after a successful executeBucket
Finish_UnlocksOnSuccess(i, c) ==
    IF c.unlock /\ executeBucketResult(c) = "nil"
    THEN /\ pc' = [pc EXCEPT ![i] = "unlock"]
         /\ call' = [call EXCEPT ![i] = c]
    ELSE /\ pc' = [pc EXCEPT ![i] = "returned"]
         /\ call' = [call EXCEPT ![i] = [c EXCEPT !.ret = executeBucketResult(c)]]

\* executeBucket has returned: the deferred unlock runs if there is one,
\* otherwise ProcessBucket returns executeBucket's result
Finish(i, c) ==
    IF c.unlock
    THEN /\ pc' = [pc EXCEPT ![i] = "unlock"]
         /\ call' = [call EXCEPT ![i] = c]
    ELSE /\ pc' = [pc EXCEPT ![i] = "returned"]
         /\ call' = [call EXCEPT ![i] = [c EXCEPT !.ret = executeBucketResult(c)]]

GoTo(i, c, step) ==
    IF step = "exit"
    THEN Finish(i, c)
    ELSE /\ pc' = [pc EXCEPT ![i] = step]
         /\ call' = [call EXCEPT ![i] = c]

\* unlock, proceed, err := s.acquireLock(ctx) and the two early returns
AcquireLock(i) ==
    /\ pc[i] = "acquire"
    /\ \E dbOk \in CtxAnswers(i) :
       \E sess \in SessionsOf(i, IF Service(i).lockKey \in LockKeys
                                  THEN lock[Service(i).lockKey] ELSE 0) :
         LET s == Service(i)
             k == s.lockKey
             holder == IF k \in LockKeys THEN lock[k] ELSE 0
             r == acquireLock(s, holder, sess, dbOk)
             go == ProcessBucketAfterGate(r)
             c == [call[i] EXCEPT !.gate = GateOutcome(r), !.unlock = r.unlock,
                                  !.conn = IF r.unlock THEN PoolAcquire(i) ELSE 0,
                                  !.answered = r.asked /\ dbOk,
                                  !.reentered = r.unlock /\ sess # i]
         IN  /\ lock' = IF r.unlock THEN [lock EXCEPT ![k] = i] ELSE lock
             /\ IF go = "execute"
                THEN /\ pc' = [pc EXCEPT ![i] = "official"]
                     /\ call' = [call EXCEPT ![i] = c]
                ELSE /\ pc' = [pc EXCEPT ![i] = "returned"]
                     /\ call' = [call EXCEPT ![i] =
                                   [c EXCEPT !.ret = IF go = "return_err"
                                                     THEN "err_lock"
                                                     ELSE "nil"]]
    /\ UNCHANGED <<cfg, probe, bf, cancelled, now, schedPc, next, storeVars, worked,
                   loopVars>>

\* officialRate, blockNumber, err := s.official.FetchOfficial(ctx)
FetchOfficial(i) ==
    /\ pc[i] = "official"
    /\ \E r \in OfficialAnswers(i) :
         LET o == OfficialOutcome(r)
             c == [call[i] EXCEPT !.official = o,
                                  !.officialRate = IF o = "fail" THEN 0 ELSE r]
         IN  IF AfterOfficial(o) = "continue"
             THEN /\ pc' = [pc EXCEPT ![i] = "market"]
                  /\ call' = [call EXCEPT ![i] = c]
             ELSE Finish(i, c)
    /\ worked' = [worked EXCEPT ![call[i].bucket] = @ \cup {i}]
    /\ UNCHANGED <<cfg, probe, bf, cancelled, now, schedPc, next, lock, storeVars,
                   loopVars>>

\* marketRate, quote, quality, err := s.market.FetchMarket(ctx), the
\* deviation and the sample; without a store the upsert is skipped
FetchMarket(i) ==
    /\ pc[i] = "market"
    /\ \E r \in MarketAnswers(i) :
         LET s == Service(i)
             m == MarketOutcome(r)
             go == AfterMarket(m)
             \* Div panics on a zero divisor; the zero guard keeps
             \* executeBucket from reaching it with one
             d == IF m = "ok" /\ call[i].officialRate # 0
                  THEN Deviation(r, call[i].officialRate) ELSE 0
             c == IF m = "ok"
                  THEN [call[i] EXCEPT !.market = m, !.marketRate = r,
                                       !.deviation = d]
                  ELSE [call[i] EXCEPT !.market = m]
         IN  IF go # "continue"
             THEN Finish(i, c)
             ELSE IF s.store
                  THEN GoTo(i, c, "upsert")
                  ELSE GoTo(i, c, AfterUpsert(s, d, TRUE))
    /\ UNCHANGED <<cfg, probe, bf, cancelled, now, schedPc, next, lock, storeVars, worked,
                   loopVars>>

\* s.store.UpsertRateSample(ctx, sample); a failure is only logged
UpsertRateSample(i) ==
    /\ pc[i] = "upsert"
    /\ \E dbOk \in StoreAnswers(i) :
         LET s == Service(i)
             c == [call[i] EXCEPT !.upsert = IF dbOk THEN "ok" ELSE "fail",
                                  !.usedConn = IF dbOk THEN PoolAcquire(i) ELSE @]
             b == c.bucket
         IN  /\ samples' = IF dbOk
                           THEN UpsertRateSampleSQL(samples, SampleOf(c))
                           ELSE samples
             /\ lastSample' = IF dbOk
                              THEN [lastSample EXCEPT ![b] = SampleOf(c)]
                              ELSE lastSample
             /\ GoTo(i, c, AfterUpsert(s, c.deviation, dbOk))
    /\ UNCHANGED <<cfg, probe, bf, cancelled, now, schedPc, next, lock, alerts, alertSeq,
                   sent, lastAlert, worked, loopVars>>

\* s.alertStore.InsertAlert(ctx, record); a failure is only logged.  The
\* statement draws an id from the sequence whenever it reaches the server
InsertAlert(i) ==
    /\ pc[i] = "alert"
    /\ \E dbOk \in StoreAnswers(i) :
         LET s == Service(i)
             a == AlertOf(s, call[i])
             ok == dbOk /\ ForeignKeyOk(samples, a)
             c == [call[i] EXCEPT !.alert = IF ok THEN "ok" ELSE "fail",
                                  !.usedConn = IF dbOk THEN PoolAcquire(i) ELSE @]
         IN  /\ alerts' = IF ok
                          THEN InsertAlertSQL(alerts, a, alertSeq)
                          ELSE alerts
             /\ alertSeq' = IF dbOk THEN alertSeq + 1 ELSE alertSeq
             /\ lastAlert' = IF ok
                             THEN [lastAlert EXCEPT ![a.sample_ts] = a]
                             ELSE lastAlert
             /\ GoTo(i, c, AfterInsertAlert(ok))
    /\ UNCHANGED <<cfg, probe, bf, cancelled, now, schedPc, next, lock, samples, sent,
                   lastSample, worked, loopVars>>

\* s.notifier.Notify(ctx, note); a failure is only logged
Notify(i) ==
    /\ pc[i] = "notify"
    /\ \E ok \in CtxAnswers(i) :
         LET s == Service(i)
             c == [call[i] EXCEPT !.notify = IF ok THEN "ok" ELSE "fail"]
         IN  /\ sent' = IF ok
                        THEN sent \cup {NotificationOf(i, s, c)}
                        ELSE sent
             /\ Finish(i, c)
    /\ UNCHANGED <<cfg, probe, bf, cancelled, now, schedPc, next, lock, samples, alerts,
                   alertSeq, lastSample, lastAlert, worked, loopVars>>

\* what the key's holder is after the unlock closure of instance i: the
\* statement succeeds (a key the session locked twice stays locked once),
\* or it fails on a connection that is broken (the pool destroys it and the
\* server frees the lock when it ends the session), or it fails on a
\* connection that stays usable (conn.Release() hands it back to the pool
\* with the lock its session holds)
UnlockOutcome(holder, i, reentered, out) ==
    IF holder # i THEN holder
    ELSE IF out = "ok"
         THEN IF reentered THEN Pooled(i) ELSE PgAdvisoryUnlock(holder, i)
         ELSE IF out = "broken" THEN Lost(i) ELSE Pooled(i)

\* the deferred unlock: pg_advisory_unlock on the reserved connection
\* under its own context, errors ignored, then conn.Release()
Unlock(i) ==
    /\ pc[i] = "unlock"
    /\ \E out \in {"ok", "broken", "usable"} :
         LET k == Service(i).lockKey
             c == call[i]
         IN  /\ lock' = [lock EXCEPT
                           ![k] = UnlockOutcome(lock[k], i, c.reentered, out)]
             /\ pc' = [pc EXCEPT ![i] = "returned"]
             /\ call' = [call EXCEPT ![i] =
                           [c EXCEPT !.unlock = FALSE,
                                     !.reentered = FALSE,
                                     !.conn = 0,
                                     !.ret = executeBucketResult(c)]]
    /\ UNCHANGED <<cfg, probe, bf, cancelled, now, schedPc, next, storeVars, worked,
                   loopVars>>

Next ==
    \/ Tick
    \/ \E k \in LockKeys : SessionEnd(k)
    \/ \E i \in Instances : RunStart(i)
    \/ \E i \in Instances : TimerFire(i)
    \/ \E i \in Instances : RunLoop(i)
    \/ \E i \in Instances : AcquireLock(i)
    \/ \E i \in Instances : FetchOfficial(i)
    \/ \E i \in Instances : FetchMarket(i)
    \/ \E i \in Instances : UpsertRateSample(i)
    \/ \E i \in Instances : InsertAlert(i)
    \/ \E i \in Instances : Notify(i)
    \/ \E i \in Instances : Unlock(i)

Spec == Init /\ [][Next]_vars

(***************************************************************************)
(* Instances whose gate is switched off, next to each other and next to a  *)
(* gated one: the lock key is 0 (advisory_lock_key: 0) or there is no      *)
(* store to lock on (database.dsn empty).                                  *)
(***************************************************************************)
UngatedConfigs ==
    {c \in Configs :
        /\ c.lockKey = 0 \/ ~c.dsn
        /\ c.alertsOn /\ c.thresholdPct = ThresholdPct /\ c.telegram}

UngatedDeployments ==
    {d \in [Instances -> Configs] :
        /\ d[1] \in {Standard, [Standard EXCEPT !.lockKey = 0]}
        /\ \A i \in Instances \ {1} : d[i] \in UngatedConfigs}

UngatedInit ==
    /\ \E d \in UngatedDeployments : Started(d)
    /\ probe = NoProbe
    /\ bf = NoBackfill

UngatedSpec == UngatedInit /\ [][Next]_vars

(***************************************************************************)
(* The service with its shutdown: a gated, persisting and alerting         *)
(* instance, with or without a startup delay, whose context is cancelled   *)
(* at any moment (signal.NotifyContext).  The steps of Run and of the      *)
(* calls it has started are taken sooner or later: every call of           *)
(* ProcessBucket carries the context or a timeout and returns.             *)
(***************************************************************************)
CancelConfigs ==
    {[Standard EXCEPT !.startupDelay = sd] : sd \in 0..MaxStartupDelay}

CancelDeployments ==
    {d \in [Instances -> CancelConfigs \cup {Off}] :
        /\ d[1] \in CancelConfigs
        /\ \A i \in Instances \ {1} : d[i] = Off}

CancelInit ==
    /\ \E d \in CancelDeployments : Started(d)
    /\ probe = NoProbe
    /\ bf = NoBackfill

CancelNext ==
    \/ Tick
    \/ \E k \in LockKeys : SessionEnd(k)
    \/ \E i \in Instances : Cancel(i)
    \/ \E i \in Instances : StartupDelay(i)
    \/ \E i \in Instances : RunStart(i)
    \/ \E i \in Instances : TimerFire(i)
    \/ \E i \in Instances : RunReturn(i)
    \/ \E i \in Instances : RunLoop(i)
    \/ \E i \in Instances : AcquireLock(i)
    \/ \E i \in Instances : FetchOfficial(i)
    \/ \E i \in Instances : FetchMarket(i)
    \/ \E i \in Instances : UpsertRateSample(i)
    \/ \E i \in Instances : InsertAlert(i)
    \/ \E i \in Instances : Notify(i)
    \/ \E i \in Instances : Unlock(i)

\* the steps a started Run and a started ProcessBucket take on their own
CancelFairness ==
    \A i \in Instances :
        /\ WF_vars(StartupDelay(i))
        /\ WF_vars(RunStart(i))
        /\ WF_vars(RunReturn(i))
        /\ WF_vars(RunLoop(i))
        /\ WF_vars(AcquireLock(i))
        /\ WF_vars(FetchOfficial(i))
        /\ WF_vars(FetchMarket(i))
        /\ WF_vars(UpsertRateSample(i))
        /\ WF_vars(InsertAlert(i))
        /\ WF_vars(Notify(i))
        /\ WF_vars(Unlock(i))

CancelSpec == CancelInit /\ [][CancelNext]_vars /\ CancelFairness

(***************************************************************************)
(* App.Backfill: one process walks the buckets of [from, to) and calls     *)
(* ProcessBucket for each, with fetches and store calls that may fail and  *)
(* a context that may be cancelled.  No scheduler runs in the process.     *)
(***************************************************************************)
\* the instants --from and --to are drawn from
BackfillTimes == 0..MaxTime

BackfillConfigs ==
    {[Standard EXCEPT !.interval = n, !.dsn = db] :
        n \in 1..Interval, db \in BOOLEAN}

BackfillDeployments ==
    {d \in [Instances -> BackfillConfigs \cup {Off}] :
        /\ d[1] \in BackfillConfigs
        /\ \A i \in Instances \ {1} : d[i] = Off}

BackfillJobs ==
    [pc : {"init"}, kind : {"backfill"}, inst : {1}, from : BackfillTimes,
     to : BackfillTimes, dryRun : BOOLEAN, bucket : {0}, processed : {0},
     failed : {0}, log : {<<>>}, ret : {"running"}, official : {0},
     market : {0}]

BackfillInit ==
    /\ \E d \in BackfillDeployments : Started(d)
    /\ probe = NoProbe
    /\ bf \in BackfillJobs

\* start, end, the empty-range error and the store (backfill.go 14-52)
BackfillStart ==
    /\ bf.pc = "init"
    /\ bf.kind = "backfill"
    /\ \E poolOk \in BOOLEAN :
         LET c == cfg[bf.inst]
             start == alignForward(bf.from, c.interval)
             ret == IF ~(start < bf.to) THEN "err_range"
                    ELSE IF bf.dryRun THEN "ok"
                    ELSE IF c.dsn /\ ~poolOk THEN "err_store"
                    ELSE IF ~c.dsn THEN "err_dsn"
                    ELSE "ok"
         IN  bf' = IF ret = "ok"
                   THEN [bf EXCEPT !.pc = "loop", !.bucket = start]
                   ELSE [bf EXCEPT !.pc = "done", !.ret = ret]
    /\ UNCHANGED <<programVars, probe>>

\* the head of the loop: the range is done, the context is done, or
\* ProcessBucket is called for the bucket
BackfillLoop ==
    /\ bf.pc = "loop"
    /\ bf.kind = "backfill"
    /\ LET i == bf.inst
       IN  IF ~(bf.bucket < bf.to)
           THEN /\ bf' = [bf EXCEPT !.pc = "done",
                                    !.ret = IF bf.failed > 0 THEN "err_failed"
                                            ELSE "nil"]
                /\ UNCHANGED <<pc, call>>
           ELSE IF cancelled[i]
                THEN /\ bf' = [bf EXCEPT !.pc = "done", !.ret = "cancelled"]
                     /\ UNCHANGED <<pc, call>>
                ELSE /\ bf' = [bf EXCEPT !.pc = "call",
                                         !.log = Append(@, bf.bucket)]
                     /\ pc' = [pc EXCEPT ![i] = "acquire"]
                     /\ call' = [call EXCEPT ![i] = FreshCall(bf.bucket)]
    /\ UNCHANGED <<cfg, probe, cancelled, now, schedPc, next, lock, storeVars,
                   worked, loopVars>>

\* variant: the loop ends at the first bucket that failed
BackfillCount_StopsAtFailure ==
    /\ bf.pc = "call"
    /\ bf.kind = "backfill"
    /\ LET i == bf.inst
       IN  /\ pc[i] = "returned"
           /\ bf' = IF call[i].ret # "nil"
                     THEN [bf EXCEPT !.pc = "done", !.failed = @ + 1,
                                     !.ret = "err_failed"]
                     ELSE [bf EXCEPT !.pc = "loop", !.processed = @ + 1,
                                     !.bucket = @ + cfg[i].interval]
           /\ pc' = [pc EXCEPT ![i] = "idle"]
           /\ call' = [call EXCEPT ![i] = IdleCall]
    /\ UNCHANGED <<cfg, probe, cancelled, now, schedPc, next, lock, storeVars,
                   worked, loopVars>>

\* ProcessBucket has returned: failed++ or processed++, and the next bucket
BackfillCount ==
    /\ bf.pc = "call"
    /\ bf.kind = "backfill"
    /\ LET i == bf.inst
       IN  /\ pc[i] = "returned"
           /\ bf' = [bf EXCEPT
                       !.pc = "loop",
                       !.failed = IF call[i].ret # "nil" THEN @ + 1 ELSE @,
                       !.processed = IF call[i].ret = "nil" THEN @ + 1 ELSE @,
                       !.bucket = @ + cfg[i].interval]
           /\ pc' = [pc EXCEPT ![i] = "idle"]
           /\ call' = [call EXCEPT ![i] = IdleCall]
    /\ UNCHANGED <<cfg, probe, cancelled, now, schedPc, next, lock, storeVars,
                   worked, loopVars>>

BackfillNext ==
    \/ BackfillStart
    \/ BackfillLoop
    \/ BackfillCount
    \/ \E i \in Instances : Cancel(i)
    \/ \E k \in LockKeys : SessionEnd(k)
    \/ \E i \in Instances : AcquireLock(i)
    \/ \E i \in Instances : FetchOfficial(i)
    \/ \E i \in Instances : FetchMarket(i)
    \/ \E i \in Instances : UpsertRateSample(i)
    \/ \E i \in Instances : Unlock(i)

BackfillSpec == BackfillInit /\ [][BackfillNext]_vars

(***************************************************************************)
(* The core as a whole: a live service (App.Run) and, in a second process  *)
(* started from the same configuration file, one command: a backfill of    *)
(* the buckets around the live ones, as a dry run or not, or a simulated   *)
(* alert.                                                                  *)
(***************************************************************************)
\* the rates given to SimulateAlert: any, a market rate equal to the
\* official one included
SimulatedRates == {0} \cup MarketRates \cup (OfficialRates \ {0})

CoreJobs ==
    [pc : {"init"}, kind : {"backfill"}, inst : {2}, from : {0},
     to : {MaxTime}, dryRun : BOOLEAN, bucket : {0}, processed : {0},
     failed : {0}, log : {<<>>}, ret : {"running"}, official : {0},
     market : {0}]
    \cup
    [pc : {"init"}, kind : {"simulate"}, inst : {2}, from : {0}, to : {0},
     dryRun : {FALSE}, bucket : {0}, processed : {0}, failed : {0},
     log : {<<>>}, ret : {"running"}, official : OfficialRates,
     market : SimulatedRates]

CoreInit ==
    /\ Started([i \in Instances |-> Standard])
    /\ probe = NoProbe
    /\ bf \in CoreJobs

\* SimulateAlert up to its call of ProcessBucket (simulate.go 16-32)
SimulateStart ==
    /\ bf.pc = "init"
    /\ bf.kind = "simulate"
    /\ LET i == bf.inst
           ret == IF ~cfg[i].alertsOn THEN "err_disabled"
                  ELSE IF ~cfg[i].telegram THEN "err_channels"
                  ELSE "ok"
       IN  IF ret = "ok"
           THEN /\ bf' = [bf EXCEPT !.pc = "call"]
                /\ pc' = [pc EXCEPT ![i] = "acquire"]
                /\ call' = [call EXCEPT
                              ![i] = FreshCall(Truncate(now, cfg[i].interval))]
           ELSE /\ bf' = [bf EXCEPT !.pc = "done", !.ret = ret]
                /\ UNCHANGED <<pc, call>>
    /\ UNCHANGED <<cfg, probe, cancelled, now, schedPc, next, lock, storeVars,
                   worked, loopVars>>

\* SimulateAlert returns what ProcessBucket returned
SimulateReturn ==
    /\ bf.pc = "call"
    /\ bf.kind = "simulate"
    /\ LET i == bf.inst
       IN  /\ pc[i] = "returned"
           /\ bf' = [bf EXCEPT !.pc = "done", !.ret = call[i].ret]
           /\ pc' = [pc EXCEPT ![i] = "idle"]
           /\ call' = [call EXCEPT ![i] = IdleCall]
    /\ UNCHANGED <<cfg, probe, cancelled, now, schedPc, next, lock, storeVars,
                   worked, loopVars>>

CoreNext ==
    \/ Tick
    \/ \E k \in LockKeys : SessionEnd(k)
    \/ \E i \in Instances \ {bf.inst} : RunStart(i)
    \/ \E i \in Instances : TimerFire(i)
    \/ \E i \in Instances : RunLoop(i)
    \/ BackfillStart
    \/ BackfillLoop
    \/ BackfillCount
    \/ SimulateStart
    \/ SimulateReturn
    \/ \E i \in Instances : AcquireLock(i)
    \/ \E i \in Instances : FetchOfficial(i)
    \/ \E i \in Instances : FetchMarket(i)
    \/ \E i \in Instances : UpsertRateSample(i)
    \/ \E i \in Instances : InsertAlert(i)
    \/ \E i \in Instances : Notify(i)
    \/ \E i \in Instances : Unlock(i)

CoreSpec == CoreInit /\ [][CoreNext]_vars

(***************************************************************************)
(* The store under ProcessBucket and MarkSampleErrored: a live instance    *)
(* and a backfill over the same buckets write sample rows, and an operator *)
(* marks rows errored in between (Store.MarkSampleErrored has no caller in *)
(* the repository; it is part of the RateSampleStore interface).           *)
(***************************************************************************)
\* the message a row is marked with
ErrorMessages == {"fetch failed"}

\* the instances persist samples behind the gate; no notifier is wired
\* (alerting.telegram.enabled: false), so no invocation takes the alert path
MarkConfig == [Standard EXCEPT !.telegram = FALSE]

MarkJobs ==
    [pc : {"init"}, kind : {"backfill"}, inst : {2}, from : {0},
     to : {MaxTime}, dryRun : {FALSE}, bucket : {0}, processed : {0},
     failed : {0}, log : {<<>>}, ret : {"running"}, official : {0},
     market : {0}]

MarkInit ==
    /\ Started([i \in Instances |-> MarkConfig])
    /\ probe = NoProbe
    /\ bf \in MarkJobs

\* Store.MarkSampleErrored(ctx, bucket, errMsg): the update, or an error
\* (the statement failed, or pgx.ErrNoRows when no row has the bucket)
\* that leaves the table alone
MarkSampleErrored(b, msg) ==
    /\ \E dbOk \in BOOLEAN :
         samples' = IF dbOk THEN MarkSampleErroredSQL(samples, b, msg)
                            ELSE samples
    /\ UNCHANGED <<cfg, probe, bf, cancelled, now, schedPc, next, pc, call, lock,
                   alerts, alertSeq, sent, lastSample, lastAlert, worked,
                   loopVars>>

MarkNext ==
    \/ Tick
    \/ \E k \in LockKeys : SessionEnd(k)
    \/ \E i \in Instances \ {bf.inst} : RunStart(i)
    \/ \E i \in Instances : TimerFire(i)
    \/ \E i \in Instances : RunLoop(i)
    \/ BackfillStart
    \/ BackfillLoop
    \/ BackfillCount
    \/ \E i \in Instances : AcquireLock(i)
    \/ \E i \in Instances : FetchOfficial(i)
    \/ \E i \in Instances : FetchMarket(i)
    \/ \E i \in Instances : UpsertRateSample(i)
    \/ \E i \in Instances : Unlock(i)
    \/ \E b \in BucketSet, msg \in ErrorMessages : MarkSampleErrored(b, msg)

MarkSpec == MarkInit /\ [][MarkNext]_vars

(***************************************************************************)
(* A healthy fleet: every instance runs on the shared store with the same  *)
(* lock key, every fetch returns a nonzero rate, the store and the         *)
(* notifier answer every call, no session is lost and nobody is            *)
(* cancelled.  Only the timing is free: how long each call takes against   *)
(* the wall clock.                                                         *)
(***************************************************************************)
HealthyDeployments == {d \in Deployments : \A i \in Instances : d[i].deployed}

HealthyInit ==
    /\ \E d \in HealthyDeployments : Started(d)
    /\ probe = NoProbe
    /\ bf = NoBackfill

\* none of the calls of the invocation failed
HealthyCall(c) ==
    /\ c.gate # "error"
    /\ c.official \notin {"fail", "zero"}
    /\ c.market # "fail"
    /\ c.upsert # "fail"
    /\ c.alert # "fail"
    /\ c.notify # "fail"

\* the unlock statement succeeded: the key is free or held by an instance
HealthyLock == \A k \in LockKeys : lock[k] >= 0

HealthyNext ==
    \/ Tick
    \/ \E i \in Instances : RunStart(i)
    \/ \E i \in Instances : TimerFire(i)
    \/ \E i \in Instances : RunLoop(i)
    \/ \E i \in Instances : AcquireLock(i) /\ HealthyCall(call[i])'
    \/ \E i \in Instances : FetchOfficial(i) /\ HealthyCall(call[i])'
    \/ \E i \in Instances : FetchMarket(i) /\ HealthyCall(call[i])'
    \/ \E i \in Instances : UpsertRateSample(i) /\ HealthyCall(call[i])'
    \/ \E i \in Instances : InsertAlert(i) /\ HealthyCall(call[i])'
    \/ \E i \in Instances : Notify(i) /\ HealthyCall(call[i])'
    \/ \E i \in Instances : Unlock(i) /\ HealthyLock'

HealthySpec == HealthyInit /\ [][HealthyNext]_vars

(***************************************************************************)
(* One gated instance with a store and alerting, under every size of its   *)
(* connection pool (database.max_open_conns: 1 and more).  Every call that *)
(* can be made is eventually made and answered.                            *)
(***************************************************************************)
PoolConfigs == {[Standard EXCEPT !.maxConns = n] : n \in 1..MaxConns}

PoolDeployments ==
    {d \in [Instances -> PoolConfigs \cup {Off}] :
        /\ d[1] \in PoolConfigs
        /\ \A i \in Instances \ {1} : d[i] = Off}

PoolInit ==
    /\ \E d \in PoolDeployments : Started(d)
    /\ probe = NoProbe
    /\ bf = NoBackfill

PoolNext ==
    \/ Tick
    \/ \E k \in LockKeys : SessionEnd(k)
    \/ \E i \in Instances : Cancel(i)
    \/ \E i \in Instances : RunStart(i)
    \/ \E i \in Instances : TimerFire(i)
    \/ \E i \in Instances : RunReturn(i)
    \/ \E i \in Instances : RunLoop(i)
    \/ \E i \in Instances : AcquireLock(i)
    \/ \E i \in Instances : FetchOfficial(i)
    \/ \E i \in Instances : FetchMarket(i)
    \/ \E i \in Instances : UpsertRateSample(i)
    \/ \E i \in Instances : InsertAlert(i)
    \/ \E i \in Instances : Notify(i)
    \/ \E i \in Instances : Unlock(i)

\* the sources, the store and the notifier answer, and the process runs
PoolFairness ==
    \A i \in Instances :
        /\ WF_vars(RunLoop(i))
        /\ WF_vars(AcquireLock(i))
        /\ WF_vars(FetchOfficial(i))
        /\ WF_vars(FetchMarket(i))
        /\ WF_vars(UpsertRateSample(i))
        /\ WF_vars(InsertAlert(i))
        /\ WF_vars(Notify(i))
        /\ WF_vars(Unlock(i))

PoolSpec == PoolInit /\ [][PoolNext]_vars /\ PoolFairness

(***************************************************************************)
(* One instance on its own, with everything its scheduler is exposed to:   *)
(* aligned and unaligned mode, each interval, slow and failing ticks, a    *)
(* wall clock that is set, and cancellation.  The instance runs without a  *)
(* store and without alerting, so a tick is the gate's bypass and the two  *)
(* fetches.                                                                *)
(***************************************************************************)
SchedConfigs ==
    [deployed : {TRUE}, lockKey : {0}, dsn : {FALSE}, alertsOn : {FALSE},
     thresholdPct : {0}, telegram : {FALSE}, align : BOOLEAN,
     interval : 1..Interval, channels : {<<"telegram">>},
     startupDelay : {0}, maxConns : {MaxConns}]

SchedDeployments ==
    {d \in [Instances -> SchedConfigs \cup {Off}] :
        /\ d[1] \in SchedConfigs
        /\ \A i \in Instances \ {1} : d[i] = Off}

SchedInit ==
    /\ \E d \in SchedDeployments : Started(d)
    /\ probe = NoProbe
    /\ bf = NoBackfill

SchedNext ==
    \/ Tick
    \/ ClockJump
    \/ \E i \in Instances : RunStart(i)
    \/ \E i \in Instances : TimerFire(i)
    \/ \E i \in Instances : RunLoop(i)
    \/ \E i \in Instances : AcquireLock(i)
    \/ \E i \in Instances : FetchOfficial(i)
    \/ \E i \in Instances : FetchMarket(i)
    \/ \E i \in Instances : Cancel(i)
    \/ \E i \in Instances : RunReturn(i)

SchedSpec == SchedInit /\ [][SchedNext]_vars

\* rates the deviation is computed for: 2% apart, and so close that the
\* division's last digit cannot tell them apart
ProbeRates == {98, 100, 102, 2999, 3000, 3001}

NextTickProbes ==
    [fn : {"nextTick"}, align : BOOLEAN, interval : 1..MaxProbeInterval,
     now : 0..MaxProbeTime, done : {FALSE}, out : {0}]

DeviationProbes ==
    [fn : {"deviation"}, official : ProbeRates, market : ProbeRates,
     done : {FALSE}, deviation : {0}, stored : {0}]

PureInit ==
    /\ Started([i \in Instances |-> Off])
    /\ probe \in NextTickProbes \cup DeviationProbes
    /\ bf = NoBackfill

\* s.nextTick(now) of a scheduler with the probe's options
ApplyNextTick ==
    /\ probe.fn = "nextTick"
    /\ ~probe.done
    /\ probe' = [probe EXCEPT
                   !.done = TRUE,
                   !.out = nextTick([align |-> probe.align,
                                     interval |-> probe.interval], probe.now)]
    /\ UNCHANGED <<programVars, bf>>

\* executeBucket's deviation for the probe's rates, and the value the
\* deviation_pct column of the sample row takes
ApplyDeviation ==
    /\ probe.fn = "deviation"
    /\ ~probe.done
    /\ LET d == Deviation(probe.market, probe.official)
           c == [FreshCall(0) EXCEPT !.officialRate = probe.official,
                                     !.marketRate = probe.market,
                                     !.deviation = d]
       IN  probe' = [probe EXCEPT
                       !.done = TRUE,
                       !.deviation = d,
                       !.stored = SampleRow(SampleOf(c)).deviation_pct]
    /\ UNCHANGED <<programVars, bf>>

PureNext == ApplyNextTick \/ ApplyDeviation

PureSpec == PureInit /\ [][PureNext]_vars

(***************************************************************************)
(* Vocabulary of the properties.                                           *)
(***************************************************************************)
\* instance i is between a successful TryAdvisoryLock and its unlock
HoldsGate(i) == call[i].unlock

\* i and j are deployed on the shared store with the same nonzero lock key
SameGate(i, j) ==
    /\ i # j
    /\ cfg[i].deployed /\ cfg[j].deployed
    /\ cfg[i].dsn /\ cfg[j].dsn
    /\ cfg[i].lockKey # 0
    /\ cfg[i].lockKey = cfg[j].lockKey

\* executeBucket of instance i has returned (only the deferred unlock and
\* the return are left)
Finished(i) == pc[i] \in {"unlock", "returned"}

\* the invocation of instance i made none of executeBucket's calls
NoFetch(i) == call[i].official = "none" /\ call[i].market = "none"

NoWrite(i) ==
    call[i].upsert = "none" /\ call[i].alert = "none" /\ call[i].notify = "none"

\* the step is one of instance i
StepOf(i) == pc'[i] # pc[i]

SampleRowsOf(b) == {r \in samples : r.bucket_ts = b}

AlertRowsOf(b) == {r \in alerts : r.sample_ts = b}

(***************************************************************************)
(* C1.  Mutual exclusion of the gate: of the instances that share the      *)
(* store and one nonzero lock key, at most one holds the gate in any       *)
(* state; and a TryAdvisoryLock issued while another of them holds the     *)
(* gate never acquires it and, whenever the store answers the query,       *)
(* reports acquired=false with no error (ProcessBucket skips with nil).    *)
(***************************************************************************)
C1_AtMostOneHolder ==
    \A i, j \in Instances : SameGate(i, j) => ~(HoldsGate(i) /\ HoldsGate(j))

C1_ContendedTryStep ==
    \A i \in Instances :
        (/\ pc[i] = "acquire"
         /\ StepOf(i)
         /\ \E j \in Instances : SameGate(i, j) /\ HoldsGate(j))
        => /\ ~call'[i].unlock
           /\ call'[i].gate # "acquired"
           /\ call'[i].answered
                => call'[i].gate = "busy" /\ call'[i].ret = "nil"

C1_GateMutualExclusion == []C1_AtMostOneHolder /\ [][C1_ContendedTryStep]_vars

\* one instance holds the gate while the other's try-lock was answered busy
C1_Witness ==
    \E i, j \in Instances :
        /\ SameGate(i, j)
        /\ HoldsGate(j)
        /\ call[i].gate = "busy" /\ call[i].answered /\ call[i].ret = "nil"

(***************************************************************************)
(* C2.  No duplicate processing: for instances that share the store and    *)
(* one nonzero lock key, the work of a bucket is done by at most one       *)
(* instance over the whole run and no bucket is notified twice.            *)
(***************************************************************************)
C2_NoDuplicateProcessing ==
    \A b \in BucketSet :
        /\ \A i, j \in worked[b] : SameGate(i, j) => i = j
        /\ \A n, m \in sent :
              (n.bucket = b /\ m.bucket = b /\ SameGate(n.by, m.by)) => n = m

(***************************************************************************)
(* C3.  Gate contention is a silent skip: when the try-lock reports        *)
(* not-acquired, ProcessBucket returns nil having made no fetch, no        *)
(* upsert, no alert upsert and no notification, and the step leaves the    *)
(* store and the lock table as they were.                                  *)
(***************************************************************************)
C3_SkippedCall ==
    \A i \in Instances :
        call[i].gate = "busy"
        => /\ pc[i] = "returned"
           /\ call[i].ret = "nil"
           /\ ~call[i].unlock
           /\ NoFetch(i)
           /\ NoWrite(i)

C3_SkipStep ==
    \A i \in Instances :
        (StepOf(i) /\ pc[i] = "acquire" /\ call'[i].gate = "busy")
        => UNCHANGED <<samples, alerts, alertSeq, sent, lock, worked>>

C3_ContentionIsSilentSkip == []C3_SkippedCall /\ [][C3_SkipStep]_vars

\* a skipped invocation has returned while the store holds rows
C3_Witness ==
    \E i \in Instances :
        /\ call[i].gate = "busy"
        /\ pc[i] = "returned"
        /\ call[i].ret = "nil"
        /\ samples # {}

(***************************************************************************)
(* C4.  Fetch failure writes nothing: when the official or the market      *)
(* fetch returns an error, executeBucket is over, ProcessBucket returns    *)
(* an error, and no step of that invocation touches the sample table, the  *)
(* alert table or the notifier.                                            *)
(***************************************************************************)
FetchFailed(c) == c.official = "fail" \/ c.market = "fail"

C4_FailedCall ==
    \A i \in Instances :
        FetchFailed(call[i])
        => /\ Finished(i)
           /\ NoWrite(i)
           /\ pc[i] = "returned" => call[i].ret \in {"err_official", "err_market"}

C4_FailedStep ==
    \A i \in Instances :
        (StepOf(i) /\ (FetchFailed(call[i]) \/ FetchFailed(call'[i])))
        => UNCHANGED <<samples, alerts, alertSeq, sent>>

C4_FetchFailureWritesNothing == []C4_FailedCall /\ [][C4_FailedStep]_vars

\* the market fetch failed for a bucket whose row another run had written
C4_Witness ==
    \E i \in Instances :
        /\ call[i].official = "ok"
        /\ call[i].market = "fail"
        /\ pc[i] = "returned"
        /\ call[i].ret = "err_market"
        /\ SampleRowsOf(call[i].bucket) # {}

(***************************************************************************)
(* C5.  Zero-official guard: when the official source answers rate 0       *)
(* without error, ProcessBucket returns an error, the market source is     *)
(* never called, no deviation is computed and nothing is written or sent.  *)
(***************************************************************************)
C5_ZeroCall ==
    \A i \in Instances :
        call[i].official = "zero"
        => /\ Finished(i)
           /\ call[i].market = "none"
           /\ call[i].deviation = 0
           /\ NoWrite(i)
           /\ pc[i] = "returned" => call[i].ret = "err_zero"

C5_ZeroStep ==
    \A i \in Instances :
        (StepOf(i) /\ (call[i].official = "zero" \/ call'[i].official = "zero"))
        => UNCHANGED <<samples, alerts, alertSeq, sent>>

C5_ZeroOfficialGuard == []C5_ZeroCall /\ [][C5_ZeroStep]_vars

\* an invocation returned the zero-rate error
C5_Witness ==
    \E i \in Instances :
        /\ call[i].official = "zero"
        /\ call[i].officialRate = 0
        /\ pc[i] = "returned"
        /\ call[i].ret = "err_zero"

(***************************************************************************)
(* C6.  ProcessBucket returns a non-nil error exactly when the gate        *)
(* acquisition errored or a fetch failed (a zero official rate included);  *)
(* failing sample upsert, alert upsert and notifier leave it nil.          *)
(***************************************************************************)
C6_ErrorIffGateOrFetch ==
    \A i \in Instances :
        pc[i] = "returned"
        => /\ call[i].ret # "running"
           /\ call[i].ret # "nil"
                <=> \/ call[i].gate = "error"
                    \/ call[i].official \in {"fail", "zero"}
                    \/ call[i].market = "fail"

\* upsert, alert upsert and notifier all failed and nil was returned
C6_Witness ==
    \E i \in Instances :
        /\ pc[i] = "returned"
        /\ call[i].upsert = "fail"
        /\ call[i].alert = "fail"
        /\ call[i].notify = "fail"
        /\ call[i].ret = "nil"

(***************************************************************************)
(* The alert condition, from the configuration: alerting enabled, a        *)
(* nonzero threshold configured, a notifier wired, and the deviation       *)
(* strictly beyond the threshold in absolute value.                        *)
(***************************************************************************)
AlertCondition(i) ==
    /\ cfg[i].alertsOn
    /\ cfg[i].thresholdPct # 0
    /\ cfg[i].telegram
    /\ \/ call[i].deviation > cfg[i].thresholdPct * Scale
       \/ call[i].deviation < -(cfg[i].thresholdPct * Scale)

(***************************************************************************)
(* C7.  Alerting is independent of sample persistence: when the sample     *)
(* upsert failed and the alert condition holds, the alert upsert is still  *)
(* attempted and the notifier still invoked; a failed alert upsert does    *)
(* not prevent the notifier call either.                                   *)
(***************************************************************************)
C7_AlertDespiteStoreFailure ==
    \A i \in Instances :
        (Finished(i) /\ call[i].market = "ok")
        => /\ (call[i].upsert = "fail" /\ AlertCondition(i))
                => call[i].alert # "none" /\ call[i].notify # "none"
           /\ call[i].alert = "fail" => call[i].notify # "none"

\* the upsert and the alert upsert failed and the notification was delivered
C7_Witness ==
    \E i \in Instances :
        /\ Finished(i)
        /\ call[i].upsert = "fail"
        /\ call[i].alert = "fail"
        /\ call[i].notify = "ok"
        /\ \E n \in sent : n.by = i /\ n.bucket = call[i].bucket

(***************************************************************************)
(* C8.  Alert trigger condition: in a ProcessBucket that fetched both      *)
(* rates the notifier is invoked exactly when the alert condition holds,   *)
(* and the alert upsert is made exactly then where a store is wired; a     *)
(* deviation whose absolute value equals the threshold triggers nothing.   *)
(***************************************************************************)
C8_AlertExactlyWhenBeyondThreshold ==
    \A i \in Instances :
        (Finished(i) /\ call[i].market = "ok")
        => /\ call[i].notify # "none" <=> AlertCondition(i)
           /\ call[i].alert # "none" <=> (AlertCondition(i) /\ cfg[i].dsn)

\* one invocation ended at exactly the threshold without an alert while
\* another, beyond its threshold, upserted an alert and notified
C8_Witness ==
    \E i, j \in Instances :
        /\ Finished(i) /\ call[i].market = "ok"
        /\ cfg[i].alertsOn /\ cfg[i].telegram /\ cfg[i].thresholdPct # 0
        /\ Abs(call[i].deviation) = cfg[i].thresholdPct * Scale
        /\ call[i].notify = "none" /\ call[i].alert = "none"
        /\ Finished(j) /\ call[j].market = "ok"
        /\ call[j].deviation < 0
        /\ call[j].alert = "ok" /\ call[j].notify = "ok"

(***************************************************************************)
(* C9.  Idempotent sample upsert: in every state the table holds exactly   *)
(* one row for each bucket ever upserted, none for the others, and the     *)
(* row carries the values of the latest upsert for its bucket (the         *)
(* deviation as its column stores it).                                     *)
(***************************************************************************)
C9_OneRowLatestValues ==
    \A b \in BucketSet :
        IF lastSample[b] = None
        THEN SampleRowsOf(b) = {}
        ELSE /\ Cardinality(SampleRowsOf(b)) = 1
             /\ \A r \in SampleRowsOf(b) :
                   /\ r.official = lastSample[b].official
                   /\ r.market = lastSample[b].market
                   /\ r.deviation_pct =
                         NumericColumn(lastSample[b].deviation_pct,
                                       PctColumnDigits)
                   /\ r.status = lastSample[b].status
                   /\ r.error = lastSample[b].error

\* two invocations upserted different rates for one bucket
C9_Witness ==
    \E i, j \in Instances :
        /\ call[i].upsert = "ok" /\ call[j].upsert = "ok"
        /\ call[i].bucket = call[j].bucket
        /\ call[i].marketRate # call[j].marketRate
        /\ Cardinality(SampleRowsOf(call[i].bucket)) = 1

(***************************************************************************)
(* C10.  Alert uniqueness: there is at most one alert row per sample       *)
(* bucket; it carries the deviation, threshold (as their columns store     *)
(* them), direction and channels of the latest InsertAlert for the         *)
(* bucket, and once a bucket has a row its id never changes.               *)
(***************************************************************************)
C10_OneAlertLatestValues ==
    \A b \in BucketSet :
        IF lastAlert[b] = None
        THEN AlertRowsOf(b) = {}
        ELSE /\ Cardinality(AlertRowsOf(b)) = 1
             /\ \A r \in AlertRowsOf(b) :
                   /\ r.deviation_pct =
                         NumericColumn(lastAlert[b].deviation_pct,
                                       PctColumnDigits)
                   /\ r.threshold_pct =
                         NumericColumn(lastAlert[b].threshold_pct,
                                       PctColumnDigits)
                   /\ r.direction = lastAlert[b].direction
                   /\ r.channels = lastAlert[b].channels

C10_IdKept ==
    \A r \in alerts :
        \E q \in alerts' : q.sample_ts = r.sample_ts /\ q.id = r.id

C10_AlertUniqueness == []C10_OneAlertLatestValues /\ [][C10_IdKept]_vars

\* two invocations upserted alerts with different thresholds for one bucket
C10_Witness ==
    \E i, j \in Instances :
        /\ call[i].alert = "ok" /\ call[j].alert = "ok"
        /\ call[i].bucket = call[j].bucket
        /\ Service(i).threshold # Service(j).threshold
        /\ Cardinality(AlertRowsOf(call[i].bucket)) = 1

(***************************************************************************)
(* C11.  nextTick: with alignment it returns the smallest multiple of the  *)
(* interval that is strictly greater than now, without alignment it        *)
(* returns now + interval; in both modes the result is strictly after now. *)
(***************************************************************************)
C11_NextTickStrictlyAfter ==
    (probe.fn = "nextTick" /\ probe.done)
    => /\ probe.out > probe.now
       /\ probe.align
            => /\ probe.out % probe.interval = 0
               /\ \A m \in 0..(MaxProbeTime + MaxProbeInterval) :
                     (m % probe.interval = 0 /\ m > probe.now)
                     => probe.out <= m
       /\ ~probe.align => probe.out = probe.now + probe.interval

\* now on a boundary of a 5-unit interval: 5 gives 10, not 5
C11_Witness ==
    /\ probe.fn = "nextTick" /\ probe.done
    /\ probe.align /\ probe.interval = 5 /\ probe.now = 5
    /\ probe.out = 10

(***************************************************************************)
(* Vocabulary of the scheduler's properties.                               *)
(***************************************************************************)
\* the step is Run of instance i taking the timer case and calling tick
TickStarts(i) == schedPc[i] = "wait" /\ schedPc'[i] = "tick"

\* the step is Run of instance i getting tick's result back and going round
\* the loop
TickReturns(i) == schedPc[i] = "tick" /\ schedPc'[i] # "tick"

\* a ProcessBucket invocation of instance i is in flight
InFlight(i) == pc[i] \notin {"idle", "returned"}

(***************************************************************************)
(* C12.  Run never returns because tick returned an error: the step that   *)
(* takes a tick's result, error or not, leaves Run waiting for the next    *)
(* boundary, and Run returns only from its wait and only with the context  *)
(* cancelled.                                                              *)
(***************************************************************************)
C12_ReturnedOnlyCancelled ==
    \A i \in Instances : schedPc[i] = "returned" => cancelled[i]

C12_LoopStep ==
    \A i \in Instances :
        /\ TickReturns(i) => schedPc'[i] = "wait"
        /\ (schedPc[i] # "returned" /\ schedPc'[i] = "returned")
              => schedPc[i] = "wait" /\ cancelled[i]

C12_ErrorsNeverEndRun == []C12_ReturnedOnlyCancelled /\ [][C12_LoopStep]_vars

\* a later tick runs after a tick that failed, with no cancellation
C12_Witness ==
    \E i \in Instances :
        /\ tickFailed[i]
        /\ ~cancelled[i]
        /\ schedPc[i] = "tick"
        /\ InFlight(i)

(***************************************************************************)
(* C13.  Fixed cadence.  As stated: after the tick for boundary t returns, *)
(* with success or error and however long it took, the next boundary Run   *)
(* waits for is t + interval.                                              *)
(***************************************************************************)
C13_AlwaysPreviousPlusInterval ==
    [][\A i \in Instances :
          TickReturns(i) => next'[i] = next[i] + cfg[i].interval]_vars

(***************************************************************************)
(* C13, amended.  After the tick for boundary t returns, with success or   *)
(* error, the next boundary Run waits for is t + interval unless that      *)
(* instant has already passed on the wall clock; then it is the next       *)
(* boundary after the current time.  Either way it lies after t, so the    *)
(* bucket of t is not retried.                                             *)
(***************************************************************************)
C13_CadenceStep ==
    \A i \in Instances :
        TickReturns(i)
        => /\ now <= next[i] + cfg[i].interval
                => next'[i] = next[i] + cfg[i].interval
           /\ now > next[i] + cfg[i].interval
                => /\ next'[i] > now
                   /\ next'[i] <= now + cfg[i].interval
           /\ next'[i] > next[i]
           /\ bucketStart(cfg[i], next'[i]) > lastTick[i]

C13_FixedCadenceUnlessOverdue == [][C13_CadenceStep]_vars

\* unaligned mode: after a failed tick that took time, Run waits for the
\* failed boundary plus one interval, which is not one interval from now
C13_Witness ==
    \E i \in Instances :
        /\ ~cfg[i].align
        /\ tickFailed[i]
        /\ schedPc[i] = "wait"
        /\ jumps = 0
        /\ now > lastTick[i]
        /\ next[i] = lastTick[i] + cfg[i].interval
        /\ timer[i] > 0

(***************************************************************************)
(* C14.  Monotonic bucket progression: every bucket Run passes to tick is  *)
(* strictly greater than the bucket it passed before, under slow ticks,    *)
(* failing ticks and a wall clock set forward or backward.                 *)
(***************************************************************************)
C14_BucketStep ==
    \A i \in Instances :
        TickStarts(i)
        => /\ call'[i].bucket = lastTick'[i]
           /\ lastTick'[i] > lastTick[i]

C14_MonotonicBuckets == [][C14_BucketStep]_vars

\* a second tick runs after a failed one, with the wall clock set back
\* behind the bucket of the first
C14_Witness ==
    \E i \in Instances :
        /\ tickFailed[i]
        /\ jumps > 0
        /\ schedPc[i] = "tick"
        /\ InFlight(i)
        /\ now < lastTick[i] - cfg[i].interval

(***************************************************************************)
(* C15.  One scheduler never runs two ticks at once: a ProcessBucket       *)
(* invocation is in flight only while Run is inside its tick call, Run     *)
(* calls tick only with none in flight, and it arms the timer for the      *)
(* next boundary only when the invocation has returned.                    *)
(***************************************************************************)
C15_InFlightInsideTick ==
    \A i \in Instances : InFlight(i) => schedPc[i] = "tick"

C15_TickStep ==
    \A i \in Instances :
        /\ TickStarts(i) => ~InFlight(i)
        /\ (schedPc[i] = "tick" /\ schedPc'[i] = "wait")
              => pc[i] = "returned" /\ ~InFlight(i)'

C15_NoConcurrentTicks == []C15_InFlightInsideTick /\ [][C15_TickStep]_vars

\* a tick still in flight more than an interval after its boundary: the
\* next boundary has passed and no second tick was started
C15_Witness ==
    \E i \in Instances :
        /\ schedPc[i] = "tick"
        /\ pc[i] = "market"
        /\ jumps = 0
        /\ now > next[i] + cfg[i].interval

(***************************************************************************)
(* C16.  The gate is released on every exit path of ProcessBucket: an      *)
(* invocation that acquired the lock returns only through its unlock,      *)
(* whatever executeBucket did, and outside its invocations an instance     *)
(* neither owes an unlock nor has a session that holds the key.            *)
(***************************************************************************)
C16_NotHeldBetweenCalls ==
    \A i \in Instances :
        pc[i] \in {"idle", "acquire", "returned"}
        => /\ ~HoldsGate(i)
           /\ \A k \in LockKeys : lock[k] # i

C16_ReturnStep ==
    \A i \in Instances :
        (StepOf(i) /\ pc'[i] = "returned" /\ call'[i].gate = "acquired")
        => /\ pc[i] = "unlock"
           /\ HoldsGate(i)
           /\ ~HoldsGate(i)'
           /\ call'[i].ret = executeBucketResult(call[i])

Ungated(i) ==
    cfg[i].deployed /\ (Service(i).lockKey = 0 \/ ~Service(i).locker)

C17_NeverAsksNeverHolds ==
    \A i \in Instances :
        Ungated(i)
        => /\ call[i].gate \in {"none", "bypass"}
           /\ ~call[i].answered
           /\ ~HoldsGate(i)
           /\ pc[i] # "unlock"
           /\ \A k \in LockKeys : lock[k] \notin {i, Lost(i)}

C17_GateStep ==
    \A i \in Instances :
        (Ungated(i) /\ StepOf(i))
        => /\ UNCHANGED lock
           /\ pc[i] = "acquire"
                => /\ pc'[i] = "official"
                   /\ call'[i].gate = "bypass"
                   /\ UNCHANGED storeVars

C17_GateNoOp == []C17_NeverAsksNeverHolds /\ [][C17_GateStep]_vars

\* two ungated instances are past the gate at the same time, one of them
\* on its second invocation
C17_Witness ==
    \E i, j \in Instances :
        /\ i # j
        /\ Ungated(i) /\ Ungated(j)
        /\ call[i].gate = "bypass" /\ call[j].gate = "bypass"
        /\ pc[i] = "market" /\ pc[j] = "market"
        /\ lastTick[i] > call[j].bucket

(***************************************************************************)
(* C18.  Lock backend error: when TryAdvisoryLock returns an error,        *)
(* ProcessBucket returns that error having made no fetch and no write,     *)
(* the step leaves the tables and the notifier as they were, no sample     *)
(* row is ever marked errored, and the scheduler goes on to a boundary     *)
(* after the bucket.                                                       *)
(***************************************************************************)
C18_GateErrorCall ==
    /\ \A i \in Instances :
          call[i].gate = "error"
          => /\ pc[i] = "returned"
             /\ call[i].ret = "err_lock"
             /\ ~HoldsGate(i)
             /\ NoFetch(i)
             /\ NoWrite(i)
    /\ \A r \in samples : r.status # "errored"

C18_GateErrorStep ==
    \A i \in Instances :
        /\ (StepOf(i) /\ pc[i] = "acquire" /\ call'[i].gate = "error")
              => UNCHANGED <<samples, alerts, alertSeq, sent, worked>>
        /\ (StepOf(i) /\ pc[i] = "returned" /\ call[i].gate = "error")
              => /\ schedPc'[i] = "wait"
                 /\ pc'[i] = "idle"
                 /\ next'[i] > next[i]
                 /\ bucketStart(cfg[i], next'[i]) > call[i].bucket
                 /\ UNCHANGED <<samples, alerts, alertSeq, sent, worked>>

C18_LockErrorIsReturned == []C18_GateErrorCall /\ [][C18_GateErrorStep]_vars

\* the gate failed for a bucket after an earlier bucket was sampled: the
\* error is returned and the bucket has no row
C18_Witness ==
    \E i \in Instances :
        /\ call[i].gate = "error"
        /\ call[i].ret = "err_lock"
        /\ pc[i] = "returned"
        /\ samples # {}
        /\ SampleRowsOf(call[i].bucket) = {}

(***************************************************************************)
(* C19.  Backfill range: the buckets Backfill passes to ProcessBucket are  *)
(* multiples of the interval within [from, to), the first is the smallest  *)
(* aligned instant >= from (from itself when from is aligned), each        *)
(* further one is the previous plus the interval; a job that walked its    *)
(* range to the end has passed every aligned instant of [from, to), which  *)
(* for aligned from <= to are (to - from) / interval buckets, whatever     *)
(* the invocations returned; an empty range is an error with no            *)
(* invocation.                                                             *)
(***************************************************************************)
BackfillInterval == cfg[bf.inst].interval

\* Backfill returned from the end of its loop
BackfillWalkedRange == bf.pc = "done" /\ bf.ret \in {"nil", "err_failed"}

AlignedIn(from, to, interval) ==
    {t \in from..(to - 1) : t % interval = 0}

C19_BackfillRange ==
    bf.pc # "none"
    => LET log == bf.log
           d == BackfillInterval
       IN  /\ \A n \in 1..Len(log) :
                 /\ log[n] % d = 0
                 /\ log[n] >= bf.from
                 /\ log[n] < bf.to
                 /\ n > 1 => log[n] = log[n - 1] + d
           /\ Len(log) > 0
                 => /\ log[1] - d < bf.from
                    /\ bf.from % d = 0 => log[1] = bf.from
           /\ bf.pc \in {"loop", "done"}
                 => bf.processed + bf.failed = Len(log)
           /\ BackfillWalkedRange
                 => /\ {log[n] : n \in 1..Len(log)}
                          = AlignedIn(bf.from, bf.to, d)
                    /\ log[Len(log)] + d >= bf.to
                    /\ (bf.from % d = 0 /\ bf.to % d = 0)
                          => Len(log) = (bf.to - bf.from) \div d
           /\ (bf.pc = "done" /\ bf.ret = "err_range")
                 => /\ log = <<>>
                    /\ AlignedIn(bf.from, bf.to, d) = {}
                    /\ (bf.from % d = 0 /\ bf.to % d = 0) => bf.to <= bf.from

\* a job over an aligned range of two buckets or more has walked it to the
\* end, with an invocation that failed and one that did not
C19_Witness ==
    /\ BackfillWalkedRange
    /\ BackfillInterval > 1
    /\ bf.from % BackfillInterval = 0
    /\ bf.to % BackfillInterval = 0
    /\ Len(bf.log) >= 2
    /\ bf.failed > 0
    /\ bf.processed > 0

(***************************************************************************)
(* C20.  Deviation numerics.  As claimed: official 100 and market 102      *)
(* give exactly 2, official 100 and market 98 exactly -2, and the stored   *)
(* deviation is positive iff market > official, negative iff market <      *)
(* official and zero iff they are equal.                                   *)
(***************************************************************************)
DeviationApplied == probe.fn = "deviation" /\ probe.done

C20_Examples ==
    /\ (probe.official = 100 /\ probe.market = 102)
          => probe.deviation = 2 * Scale /\ probe.stored = 2 * Scale
    /\ (probe.official = 100 /\ probe.market = 98)
          => probe.deviation = -2 * Scale /\ probe.stored = -2 * Scale

C20_SignIffOrder ==
    DeviationApplied
    => /\ C20_Examples
       /\ probe.stored > 0 <=> probe.market > probe.official
       /\ probe.stored < 0 <=> probe.market < probe.official
       /\ probe.stored = 0 <=> probe.market = probe.official

(***************************************************************************)
(* C20, as the code has it: the deviation is (market/official - 1) * 100   *)
(* up to half a unit of the division's last digit, the stored value is     *)
(* the deviation up to half a unit of the column's last digit, the two     *)
(* examples are exact, and the sign is never inverted: a positive stored   *)
(* deviation means market > official, a negative one market < official,    *)
(* and equal rates store zero.  Rates closer than the precision store      *)
(* zero as well.                                                           *)
(***************************************************************************)
C20_SignNeverInverted ==
    DeviationApplied
    => /\ C20_Examples
       /\ Abs(probe.deviation * probe.official
                - (probe.market - probe.official) * 100 * Scale)
             <= 50 * probe.official
       /\ 2 * Abs(probe.stored - probe.deviation)
             <= Pow10(DivDigits - PctColumnDigits)
       /\ probe.stored > 0 => probe.market > probe.official
       /\ probe.stored < 0 => probe.market < probe.official
       /\ probe.market = probe.official
             => probe.deviation = 0 /\ probe.stored = 0

\* the market rate 2% under the official one: the stored deviation is -2
C20_Witness ==
    /\ DeviationApplied
    /\ probe.official = 100
    /\ probe.market = 98
    /\ probe.stored = -2 * Scale

(***************************************************************************)
(* C21.  Cancellation stops the service: once the context of an instance   *)
(* is cancelled its Run returns; it returns only from the startup delay    *)
(* or from the wait for a boundary, never with a ProcessBucket in flight,  *)
(* and when it has returned the instance owes no unlock and no session of  *)
(* it holds the key.                                                       *)
(***************************************************************************)
C21_ReturnedClean ==
    \A i \in Instances :
        schedPc[i] = "returned"
        => /\ cancelled[i]
           /\ pc[i] = "idle"
           /\ ~HoldsGate(i)
           /\ \A k \in LockKeys : lock[k] # i

C21_ReturnStep ==
    \A i \in Instances :
        (schedPc[i] # "returned" /\ schedPc'[i] = "returned")
        => /\ schedPc[i] \in {"delay", "wait"}
           /\ cancelled[i]
           /\ ~InFlight(i)

C21_CancelledRunReturns ==
    \A i \in Instances :
        (cfg[i].deployed /\ cancelled[i]) ~> (schedPc[i] = "returned")

C22_FailedUnlockDiscardsSession ==
    /\ \A i \in Instances :
          (pc[i] = "returned" /\ call[i].gate = "acquired")
          => call[i].ret = executeBucketResult(call[i])
    /\ \A k \in LockKeys : \A i \in Instances : lock[k] # Pooled(i)

(***************************************************************************)
(* C23.  Overdue boundary handling: whenever Run arms its timer, a stored  *)
(* boundary that lies in the past is replaced by the next boundary after   *)
(* the current time; the armed wait is never negative, and after an        *)
(* overdue boundary it is positive, so the missed boundaries are not       *)
(* caught up by ticks fired one after the other.                           *)
(***************************************************************************)
Arms(i) == schedPc[i] # "wait" /\ schedPc'[i] = "wait"

C23_ArmStep ==
    \A i \in Instances :
        Arms(i)
        => LET stored == IF schedPc[i] = "tick"
                         THEN next[i] + cfg[i].interval
                         ELSE nextTick(cfg[i], now)
           IN  /\ timer'[i] >= 0
               /\ timer'[i] = next'[i] - now
               /\ stored >= now => next'[i] = stored
               /\ stored < now
                     => /\ next'[i] = nextTick(cfg[i], now)
                        /\ timer'[i] > 0

C23_WaitNeverNegative == \A i \in Instances : timer[i] >= 0

C23_OverdueBoundaryRecomputed ==
    []C23_WaitNeverNegative /\ [][C23_ArmStep]_vars

\* a tick outlasted its interval: the boundaries it missed are skipped and
\* Run waits for one that lies ahead
C23_Witness ==
    \E i \in Instances :
        /\ schedPc[i] = "wait"
        /\ jumps = 0
        /\ lastTick[i] # NoTick
        /\ next[i] > lastTick[i] + 2 * cfg[i].interval
        /\ next[i] > now
        /\ timer[i] > 0

(***************************************************************************)
(* C24.  Last writer wins on a bucket: when invocations of two writers     *)
(* upsert the same bucket, in any interleaving of their steps, each        *)
(* upsert that reaches the store leaves exactly one row for the bucket,    *)
(* all of whose columns are those of that upsert, and leaves the rows of   *)
(* the other buckets alone; the row is never a mix of two writes.          *)
(***************************************************************************)
Upserts(i) == pc[i] = "upsert" /\ StepOf(i) /\ call'[i].upsert = "ok"

C24_UpsertStep ==
    \A i \in Instances :
        Upserts(i)
        => LET b == call[i].bucket
           IN  /\ SampleRowsOf(b)' = {SampleRow(SampleOf(call'[i]))}
               /\ \A c \in BucketSet \ {b} : SampleRowsOf(c)' = SampleRowsOf(c)

C24_RowOfOneWriter ==
    \A b \in BucketSet :
        /\ Cardinality(SampleRowsOf(b)) <= 1
        /\ SampleRowsOf(b) # {} => SampleRowsOf(b) = {SampleRow(lastSample[b])}

SampleBuckets == {r.bucket_ts : r \in samples}

AlertBuckets == {r.sample_ts : r \in alerts}

AlertIds == {r.id : r \in alerts}

C25_GrowStep ==
    /\ SampleBuckets \subseteq SampleBuckets'
    /\ AlertBuckets \subseteq AlertBuckets'
    /\ AlertIds \subseteq AlertIds'
    /\ Cardinality(samples) <= Cardinality(samples')
    /\ Cardinality(alerts) <= Cardinality(alerts')

C25_CoreNeverDeletes == [][C25_GrowStep]_vars

\* the live service and a backfill have written sample rows, among them
\* one for a bucket both processed, and an alert row
C25_Witness ==
    /\ bf.kind = "backfill"
    /\ bf.pc = "done"
    /\ Cardinality(samples) >= 3
    /\ alerts # {}
    /\ \E b \in BucketSet : Cardinality(worked[b]) = 2 /\ SampleRowsOf(b) # {}

(***************************************************************************)
(* C26.  Backfill is sequential and runs with the gate and the notifier    *)
(* disabled: its buckets are passed in increasing order, one               *)
(* ProcessBucket call at a time, and the process never asks for the lock,  *)
(* never writes an alert row and never sends a notification.               *)
(***************************************************************************)
C26_BackfillUngatedAndSilent ==
    (bf.pc # "none" /\ bf.kind = "backfill")
    => LET i == bf.inst
       IN  /\ \A n \in 2..Len(bf.log) : bf.log[n - 1] < bf.log[n]
           /\ InFlight(i) => bf.pc = "call"
           /\ call[i].gate \in {"none", "bypass"}
           /\ ~HoldsGate(i)
           /\ \A k \in LockKeys : lock[k] \notin {i, Lost(i), Pooled(i)}
           /\ pc[i] \notin {"alert", "notify"}
           /\ \A n \in sent : n.by # i

(***************************************************************************)
(* C27.  No partial writes on cancellation: an invocation whose context is *)
(* cancelled while it waits in one of its calls returns an error to its    *)
(* caller, and leaves the store either without any row for its bucket or   *)
(* with every row it owed: the sample row and, when the alert condition    *)
(* holds, the alert row.                                                   *)
(***************************************************************************)
C27_NoPartialWritesOnCancel ==
    \A i \in Instances :
        (pc[i] = "returned" /\ call[i].cancelledAt # "none")
        => LET b == call[i].bucket
           IN  /\ call[i].ret # "nil"
               /\ \/ SampleRowsOf(b) = {} /\ AlertRowsOf(b) = {}
                  \/ /\ SampleRowsOf(b) # {}
                     /\ (Service(i).alertStore /\ AlertCondition(i))
                            => AlertRowsOf(b) # {}

(***************************************************************************)
(* C28.  Alert direction is never flat: every alert record and every       *)
(* notification executeBucket produces has direction up when its deviation *)
(* is positive and down when it is negative, and an invocation whose       *)
(* deviation is zero never reaches the alert insert or the notifier.       *)
(***************************************************************************)
C28_DirectionOf(d) == IF d > 0 THEN "up" ELSE IF d < 0 THEN "down" ELSE "none"

C28_DirectionNeverFlat ==
    /\ \A n \in sent : n.direction = C28_DirectionOf(n.deviation_pct)
    /\ \A b \in BucketSet :
          lastAlert[b] # None
          => lastAlert[b].direction = C28_DirectionOf(lastAlert[b].deviation_pct)
    /\ \A r \in alerts : r.direction \in {"up", "down"}
    /\ \A i \in Instances :
          pc[i] \in {"alert", "notify"}
          => /\ call[i].deviation # 0
             /\ Service(i).threshold > 0
             /\ Abs(call[i].deviation) > Service(i).threshold

C28_Witness ==
    /\ \E n \in sent : n.direction = "up" /\ n.deviation_pct > 0
    /\ \E n \in sent : n.direction = "down" /\ n.deviation_pct < 0
    /\ \E r \in alerts : r.direction = "up"

(***************************************************************************)
(* C29.  The sample is recorded before the notifier is invoked.  As the    *)
(* claim states it: whenever a service with a store is about to invoke     *)
(* the notifier for a bucket, its upsert has recorded the sample row of    *)
(* that bucket.  What holds: the upsert has been made and has answered;    *)
(* when it succeeded the store holds a row for the bucket, and that row    *)
(* carries the rates of the notification and its deviation as the column   *)
(* keeps it unless a later upsert of the bucket has overwritten it; when   *)
(* it failed the notifier is invoked all the same.                         *)
(***************************************************************************)
C29_SampleRecordedBeforeNotify ==
    \A i \in Instances :
        (pc[i] = "notify" /\ Service(i).store)
        => /\ call[i].upsert = "ok"
           /\ SampleRowsOf(call[i].bucket) # {}

C29_UpsertAnsweredBeforeNotify ==
    \A i \in Instances :
        (pc[i] = "notify" /\ Service(i).store)
        => LET b == call[i].bucket
               n == NotificationOf(i, Service(i), call[i])
           IN  /\ call[i].upsert \in {"ok", "fail"}
               /\ call[i].upsert = "ok"
                  => /\ SampleRowsOf(b) # {}
                     /\ lastSample[b] = SampleOf(call[i])
                        => \A r \in SampleRowsOf(b) :
                              /\ r.official = n.official
                              /\ r.market = n.market
                              /\ r.deviation_pct =
                                    NumericColumn(n.deviation_pct, PctColumnDigits)

C29_Witness ==
    \E i, j \in Instances :
        /\ i # j
        /\ pc[i] = "notify" /\ Service(i).store /\ call[i].upsert = "ok"
        /\ lastSample[call[i].bucket] = SampleOf(call[i])
        /\ pc[j] = "notify" /\ Service(j).store /\ call[j].upsert = "fail"

(***************************************************************************)
(* C30.  Status/error consistency: under ProcessBucket and                 *)
(* MarkSampleErrored a sample row has a non-null error message only if     *)
(* its status is errored, and the row an upsert of ProcessBucket leaves    *)
(* for its bucket has status complete and no error, also when the row was  *)
(* marked errored before.                                                  *)
(***************************************************************************)
C30_ErrorOnlyWhenErrored ==
    \A r \in samples :
        /\ r.status \in {"complete", "errored"}
        /\ r.error # "null" => r.status = "errored"

C30_UpsertStep ==
    \A i \in Instances :
        Upserts(i)
        => \A r \in SampleRowsOf(call[i].bucket)' :
              r.status = "complete" /\ r.error = "null"

C30_StatusErrorConsistent == []C30_ErrorOnlyWhenErrored /\ [][C30_UpsertStep]_vars

\* a row that was written and then marked errored is about to be written
\* again by the other process, next to a row that is complete
C30_Witness ==
    \E i \in Instances :
        /\ pc[i] = "upsert"
        /\ \E r \in SampleRowsOf(call[i].bucket) :
              r.status = "errored" /\ r.error = "fetch failed"
        /\ \E r \in samples : r.status = "complete" /\ r.error = "null"

(***************************************************************************)
(* C31.  No bucket is dropped by a healthy fleet: a bucket whose boundary  *)
(* fired on an instance that skipped it at the gate is processed by        *)
(* another instance; it never happens that the instance that skipped it    *)
(* has returned while nobody has executed the bucket and every other       *)
(* instance already waits for a later boundary.                            *)
(***************************************************************************)
C31_Dropped(b) ==
    /\ worked[b] = {}
    /\ \E i \in Instances :
          /\ pc[i] = "returned" /\ call[i].bucket = b /\ call[i].gate = "busy"
          /\ \A j \in Instances \ {i} :
                SameGate(i, j) /\ schedPc[j] = "wait" /\ next[j] > b

C31_NoBucketDropped == \A b \in BucketSet : ~C31_Dropped(b)

(***************************************************************************)
(* C32.  After the cancellation signal has been raised the scheduler       *)
(* starts no new tick: Run does not take the timer case and call tick for  *)
(* a timer that expired at or after the moment of cancellation.            *)
(***************************************************************************)
C32_NoTickStep ==
    \A i \in Instances :
        (cancelled[i] /\ call[i].cancelledAt # "expired") => ~TickStarts(i)

C32_NoTickAfterCancel == [][C32_NoTickStep]_vars

(***************************************************************************)
(* C33.  The bucket Run passes to tick is the boundary its timer was armed *)
(* for: in aligned mode the armed boundary, and with it the bucket, is an  *)
(* exact multiple of the interval; in unaligned mode the bucket is the     *)
(* literal armed instant.                                                  *)
(***************************************************************************)
C33_TickStep ==
    \A i \in Instances :
        TickStarts(i)
        => /\ call'[i].bucket = next[i]
           /\ lastTick'[i] = next[i]
           /\ cfg[i].align => call'[i].bucket % cfg[i].interval = 0

C33_ArmedAligned ==
    \A i \in Instances :
        (cfg[i].align /\ schedPc[i] \in {"wait", "tick"})
        => next[i] % cfg[i].interval = 0

C33_BucketIsArmedBoundary == []C33_ArmedAligned /\ [][C33_TickStep]_vars

\* an aligned instance runs the tick of its second boundary after the
\* clock was set between two boundaries
C33_Witness ==
    \E i \in Instances :
        /\ cfg[i].align /\ cfg[i].interval = Interval
        /\ schedPc[i] = "tick"
        /\ call[i].bucket = next[i]
        /\ call[i].bucket >= 2 * Interval
        /\ now % Interval # 0

(***************************************************************************)
(* C34.  The gate's reserved connection is checked out of the pool exactly *)
(* while the invocation holds the gate: TryAdvisoryLock keeps no           *)
(* connection when the lock is not acquired or the query fails, the unlock *)
(* returns the connection, once, and while it is checked out no sample or  *)
(* alert statement of the instance runs on it.                             *)
(***************************************************************************)
C34_ReservedWhileHolding ==
    \A i \in Instances :
        /\ call[i].conn \in 0..cfg[i].maxConns
        /\ call[i].conn # 0 <=> HoldsGate(i)

C34_ConnStep ==
    \A i \in Instances :
        /\ (pc[i] = "acquire" /\ StepOf(i) /\ call'[i].gate \in {"busy", "error"})
              => call'[i].conn = 0
        /\ (call[i].conn # 0 /\ call'[i].conn # call[i].conn)
              => pc[i] = "unlock" /\ pc'[i] = "returned" /\ call'[i].conn = 0
        /\ (pc[i] = "unlock" /\ StepOf(i)) => call[i].conn # 0
        /\ (pc[i] \in {"upsert", "alert"} /\ StepOf(i) /\ HoldsGate(i))
              => call'[i].usedConn # call[i].conn

C35_ProcessBucketTerminates ==
    \A i \in Instances :
        InFlight(i) ~> (pc[i] = "returned" /\ ~HoldsGate(i))

(***************************************************************************)
(* C36.  Backfill counts a bucket as processed only when ProcessBucket     *)
(* worked on it: both rates were fetched and, unless it is a dry run, the  *)
(* sample upsert was attempted; a bucket ProcessBucket skipped because the *)
(* gate was held elsewhere is not counted as processed.                    *)
(***************************************************************************)
C36_CountStep ==
    (bf.pc = "call" /\ bf.kind = "backfill" /\ bf'.pc = "loop"
        /\ bf'.processed > bf.processed)
    => LET c == call[bf.inst]
       IN  /\ c.gate # "busy"
           /\ c.official = "ok" /\ c.market = "ok"
           /\ (bf.dryRun \/ c.upsert # "none")

C36_ProcessedOnlyWhenSampled == [][C36_CountStep]_vars

(***************************************************************************)
(* C37.  Backfill keeps going after a failed bucket: a ProcessBucket error *)
(* is counted and the loop moves to the next bucket, every bucket of the   *)
(* range is attempted, processed + failed is the number of buckets of the  *)
(* range when the run was not cancelled, Backfill returns an error at the  *)
(* end exactly when a bucket failed, and an empty range is an error with   *)
(* no ProcessBucket invocation.                                            *)
(***************************************************************************)
C37_Counts ==
    (bf.pc # "none" /\ bf.kind = "backfill")
    => LET d == BackfillInterval
           range == AlignedIn(bf.from, bf.to, d)
       IN  /\ BackfillWalkedRange
                 => /\ {bf.log[n] : n \in 1..Len(bf.log)} = range
                    /\ bf.processed + bf.failed = Cardinality(range)
                    /\ bf.ret = "err_failed" <=> bf.failed > 0
                    /\ bf.ret = "nil" <=> bf.failed = 0
           /\ (bf.pc = "done" /\ bf.ret = "err_range")
                 => /\ range = {}
                    /\ bf.log = <<>>
                    /\ bf.processed = 0 /\ bf.failed = 0
                    /\ \A b \in DOMAIN worked : worked[b] = {}
           /\ (bf.pc = "init" /\ range = {}) => pc[bf.inst] = "idle"

C37_LoopStep ==
    (bf.pc # "none" /\ bf.kind = "backfill")
    =>
    LET i == bf.inst
        d == BackfillInterval
    IN  /\ (bf.pc = "call" /\ bf'.pc # "call")
              => /\ bf'.pc = "loop"
                 /\ bf'.bucket = bf.bucket + d
                 /\ IF call[i].ret = "nil"
                    THEN bf'.processed = bf.processed + 1 /\ bf'.failed = bf.failed
                    ELSE bf'.failed = bf.failed + 1 /\ bf'.processed = bf.processed
        /\ (bf.pc = "loop" /\ bf'.pc # "loop" /\ bf.bucket < bf.to /\ ~cancelled[i])
              => /\ bf'.pc = "call"
                 /\ pc'[i] = "acquire"
                 /\ call'[i].bucket = bf.bucket

C37_KeepsGoing == []C37_Counts /\ [][C37_LoopStep]_vars

\* a bucket failed, a later bucket was processed, and Backfill returned the
\* error at the end of the range
C37_Witness ==
    /\ BackfillWalkedRange
    /\ bf.ret = "err_failed"
    /\ bf.failed = 1 /\ bf.processed >= 1
    /\ \E b \in DOMAIN worked : b > bf.log[1] /\ bf.inst \in worked[b]
    /\ Len(bf.log) >= 2

(***************************************************************************)
(* C38.  Alert rows always have their sample: in every state of the store  *)
(* the sample bucket of each alert row is the bucket of a sample row, also *)
(* when the sample upsert of the invocation failed before its alert upsert *)
(* was attempted.                                                          *)
(***************************************************************************)
C38_AlertsHaveTheirSample ==
    \A r \in alerts : SampleRowsOf(r.sample_ts) # {}

\* the sample upsert failed, no row exists for the bucket, and the alert
\* upsert that followed reached the database and was rejected
C38_Witness ==
    \E i \in Instances :
        /\ call[i].upsert = "fail"
        /\ call[i].alert = "fail"
        /\ call[i].usedConn # 0
        /\ SampleRowsOf(call[i].bucket) = {}
        /\ AlertRowsOf(call[i].bucket) = {}

====
